---------------------------- MODULE Spec2Model ----------------------------
(***************************************************************************)
(* rustbucket: an FTP-like shell over S3.                                  *)
(*                                                                         *)
(* Strings are sequences of one-character strings, so that strip_prefix,   *)
(* contains('/'), ends_with('/'), Path::join, Path::components and         *)
(* path_clean act on the characters as the Rust code does.                 *)
(* Option<T> is a sequence of length 0 (None) or 1 (Some).                 *)
(***************************************************************************)
EXTENDS Integers, Sequences, FiniteSets, TLC

(***************************************************************************)
(* Bounds of the model.                                                    *)
(***************************************************************************)
\* most entries (common prefixes plus object keys) the service returns in one listing
MaxEntries == 3
\* most page responses of one listing that carry a continuation token
MaxMorePages == 1
\* most download_object and put_object calls of one run of the model
MaxTransfers == 2
\* most pieces between separators of a path given to try_from_path
MaxSegments == 3
\* most calls of try_from_path on one path
MaxCalls == 2

None == <<>>
Some(x) == <<x>>
IsSome(o) == Len(o) = 1
Unwrap(o) == o[1]
\* None for what is empty: an Option<Vec<T>> the service left out, a key
\* with nothing in it
OptVec(v) == IF v = <<>> THEN None ELSE Some(v)

\* Result<T, RBError>: Ok(v), or Err with the ErrorKind (error.rs 5-14)
NoRet == [kind |-> "none"]
Ok(v) == [kind |-> "Ok", val |-> v]
Err(k) == [kind |-> "Err", err |-> k]

(***************************************************************************)
(* Characters and strings.                                                 *)
(***************************************************************************)
SLASH == "/"
BACKSLASH == "\\"
DOT == "."

\* The characters in use, in the order of their byte values (String's Ord).
Alphabet ==
  << ".", "/", "0", "1", "2", "3", "4", "5", "6", "7", "8", "9",
     "A", "B", "C", "D", "E", "F", "G", "H", "I", "J", "K", "L", "M",
     "N", "O", "P", "Q", "R", "S", "T", "U", "V", "W", "X", "Y", "Z",
     "\\", "_",
     "a", "b", "c", "d", "e", "f", "g", "h", "i", "j", "k", "l", "m",
     "n", "o", "p", "q", "r", "s", "t", "u", "v", "w", "x", "y", "z" >>

Code(c) == CHOOSE i \in 1..Len(Alphabet) : Alphabet[i] = c

\* str < str of Rust: lexicographic on bytes, a proper prefix is smaller
RECURSIVE StrLess(_, _)
StrLess(a, b) ==
  IF b = <<>> THEN FALSE
  ELSE IF a = <<>> THEN TRUE
  ELSE IF a[1] = b[1] THEN StrLess(Tail(a), Tail(b))
  ELSE Code(a[1]) < Code(b[1])

StrLeq(a, b) == a = b \/ StrLess(a, b)

StartsWith(s, p) == Len(p) <= Len(s) /\ SubSeq(s, 1, Len(p)) = p

EndsWith(s, c) == Len(s) > 0 /\ s[Len(s)] = c

\* str::contains(char)
Contains(s, c) == \E i \in 1..Len(s) : s[i] = c

\* str::strip_prefix: Some(rest) when s starts with p, else None
StripPrefix(s, p) ==
  IF StartsWith(s, p) THEN Some(SubSeq(s, Len(p) + 1, Len(s))) ELSE None

RECURSIVE Concat(_)
Concat(ss) == IF ss = <<>> THEN <<>> ELSE ss[1] \o Concat(Tail(ss))

\* [String]::join(sep)
RECURSIVE JoinWith(_, _)
JoinWith(ss, sep) ==
  IF ss = <<>> THEN <<>>
  ELSE IF Len(ss) = 1 THEN ss[1]
  ELSE ss[1] \o sep \o JoinWith(Tail(ss), sep)


(***************************************************************************)
(* std::path on Unix and path_clean, on the characters of the path.        *)
(***************************************************************************)
DOTDOT == <<DOT, DOT>>
CURDIR == <<DOT>>
ROOT == <<SLASH>>

\* the pieces of s between separators, empty pieces dropped
RECURSIVE SegmentsFrom(_, _)
SegmentsFrom(s, cur) ==
  IF s = <<>> THEN (IF cur = <<>> THEN <<>> ELSE <<cur>>)
  ELSE IF s[1] = SLASH
       THEN (IF cur = <<>> THEN <<>> ELSE <<cur>>) \o SegmentsFrom(Tail(s), <<>>)
       ELSE SegmentsFrom(Tail(s), Append(cur, s[1]))

Segments(s) == SegmentsFrom(s, <<>>)

\* Path::has_root / is_absolute
HasRoot(s) == Len(s) > 0 /\ s[1] = SLASH

RECURSIVE DropCurDirs(_)
DropCurDirs(segs) ==
  IF segs = <<>> THEN <<>>
  ELSE (IF segs[1] = CURDIR THEN <<>> ELSE <<segs[1]>>) \o DropCurDirs(Tail(segs))

\* Path::components without the RootDir: "." is normalised away except at
\* the start of a relative path; ".." is a ParentDir; the rest is Normal
Components(s) ==
  LET segs == Segments(s)
  IN IF segs = <<>> THEN <<>>
     ELSE IF ~HasRoot(s) /\ segs[1] = CURDIR
          THEN <<CURDIR>> \o DropCurDirs(Tail(segs))
          ELSE DropCurDirs(segs)

IsNormal(c) == c # CURDIR /\ c # DOTDOT

\* a path from its components
FromComponents(root, comps) ==
  (IF root THEN ROOT ELSE <<>>) \o JoinWith(comps, <<SLASH>>)

\* Path::file_name: the last component when it is Normal
FileName(s) ==
  LET comps == Components(s)
  IN IF comps # <<>> /\ IsNormal(comps[Len(comps)])
     THEN Some(comps[Len(comps)]) ELSE None

\* PathBuf::pop: truncate to Path::parent; nothing happens at a root or
\* an empty path
Pop(s) ==
  LET comps == Components(s)
  IN IF comps = <<>> THEN s
     ELSE FromComponents(HasRoot(s), SubSeq(comps, 1, Len(comps) - 1))

\* Path::join / PathBuf::push: an absolute argument replaces the path
Join(base, arg) ==
  IF HasRoot(arg) THEN arg
  ELSE IF base = <<>> THEN arg
  ELSE IF EndsWith(base, SLASH) THEN base \o arg
  ELSE base \o <<SLASH>> \o arg

\* path_clean: drop "." and empty elements, cancel "x/..", drop ".." at the root
RECURSIVE CleanStack(_, _, _)
CleanStack(segs, stack, rooted) ==
  IF segs = <<>> THEN stack
  ELSE IF segs[1] = CURDIR THEN CleanStack(Tail(segs), stack, rooted)
  ELSE IF segs[1] = DOTDOT
       THEN IF stack # <<>> /\ stack[Len(stack)] # DOTDOT
            THEN CleanStack(Tail(segs), SubSeq(stack, 1, Len(stack) - 1), rooted)
            ELSE IF rooted THEN CleanStack(Tail(segs), stack, rooted)
            ELSE CleanStack(Tail(segs), Append(stack, DOTDOT), rooted)
  ELSE CleanStack(Tail(segs), Append(stack, segs[1]), rooted)

Clean(s) ==
  LET stack == CleanStack(Segments(s), <<>>, HasRoot(s))
  IN IF HasRoot(s) THEN FromComponents(TRUE, stack)
     ELSE IF stack = <<>> THEN CURDIR
     ELSE FromComponents(FALSE, stack)

(***************************************************************************)
(* S3Path (s3.rs 11-64).                                                   *)
(***************************************************************************)
\* the pieces of s between separators, empty pieces kept
RECURSIVE RawSegmentsFrom(_, _)
RawSegmentsFrom(s, cur) ==
  IF s = <<>> THEN <<cur>>
  ELSE IF s[1] = SLASH THEN <<cur>> \o RawSegmentsFrom(Tail(s), <<>>)
  ELSE RawSegmentsFrom(Tail(s), Append(cur, s[1]))

RawSegments(s) == IF s = <<>> THEN <<>> ELSE RawSegmentsFrom(s, <<>>)

\* a piece that is no component: an empty one or, past the start, a "."
IsBlank(seg) == seg = <<>> \/ seg = CURDIR

\* Components::trim_left and trim_right: the pieces that are no component
\* are dropped at the ends, and the ends only
RECURSIVE TrimLeft(_)
TrimLeft(segs) ==
  IF segs # <<>> /\ IsBlank(segs[1]) THEN TrimLeft(Tail(segs)) ELSE segs

RECURSIVE TrimRight(_)
TrimRight(segs) ==
  IF segs # <<>> /\ IsBlank(segs[Len(segs)])
  THEN TrimRight(SubSeq(segs, 1, Len(segs) - 1)) ELSE segs

\* the whole of the path taken for the key, bucket included
S3PathFrom_WholeKey(rest) ==
  IF rest = <<>> THEN Ok([bucket |-> None, key |-> None])
  ELSE IF rest[1] = DOTDOT THEN Err("InvalidTarget")
  ELSE Ok([bucket |-> Some(rest[1]),
           key |-> OptVec(JoinWith(TrimRight(rest), <<SLASH>>))])

\* s3.rs 37-62: the S3Path of the pieces from the first component on. The
\* key is components.as_path() after the bucket: the rest of the path as
\* it is written, "..", "." and repeated separators inside it included.
S3PathFrom(rest) ==
  IF rest = <<>> THEN Ok([bucket |-> None, key |-> None])
  ELSE IF rest[1] = DOTDOT THEN Err("InvalidTarget")
  ELSE Ok([bucket |-> Some(rest[1]),
           key |-> OptVec(JoinWith(TrimRight(TrimLeft(Tail(rest))), <<SLASH>>))])

\* s3.rs 25-63. find_map stops at the first component that is not the
\* root: a "." at the start of a relative path and a ".." are errors.
TryFromPath(path) ==
  IF ~HasRoot(path) /\ path # <<>> /\ RawSegments(path)[1] = CURDIR
  THEN Err("InvalidTarget")
  ELSE S3PathFrom(TrimLeft(RawSegments(path)))

\* s3.rs 17-19
HasBucket(s3_path) == IsSome(s3_path.bucket)

\* s3.rs 21-23
HasKeyAndBucket(s3_path) == HasBucket(s3_path) /\ IsSome(s3_path.key)

(***************************************************************************)
(* Vec<String>::sort_unstable, as an insertion sort. Equal strings are     *)
(* indistinguishable, so every correct sort gives this sequence.           *)
(***************************************************************************)
RECURSIVE InsertSorted(_, _)
InsertSorted(x, sorted) ==
  IF sorted = <<>> THEN <<x>>
  ELSE IF StrLeq(x, sorted[1]) THEN <<x>> \o sorted
  ELSE <<sorted[1]>> \o InsertSorted(x, Tail(sorted))

\* the vector left in the order of arrival
SortUnstable_Unsorted(v) == v

RECURSIVE SortUnstable(_)
SortUnstable(v) ==
  IF v = <<>> THEN <<>> ELSE InsertSorted(v[1], SortUnstable(Tail(v)))

(***************************************************************************)
(* RBS3::list_files (s3.rs): the two filter_map closures.                  *)
(***************************************************************************)
\* s3.rs 122-130: a common prefix relative to the queried prefix
CleanCommonPrefix(common_prefix, prefix) ==
  IF IsSome(prefix) THEN StripPrefix(common_prefix, Unwrap(prefix))
  ELSE Some(common_prefix)

\* every key below the prefix kept, nested or not
KeepKey_Nested(key, prefix) ==
  IF IsSome(prefix) THEN StripPrefix(key, Unwrap(prefix)) ELSE Some(key)

\* s3.rs 139-153: an object key is kept when what is left has no delimiter
KeepKey(key, prefix) ==
  IF IsSome(prefix)
  THEN LET key_no_prefix == StripPrefix(key, Unwrap(prefix))
       IN IF IsSome(key_no_prefix) /\ ~Contains(Unwrap(key_no_prefix), SLASH)
          THEN key_no_prefix
          ELSE None
  ELSE IF ~Contains(key, SLASH) THEN Some(key) ELSE None

\* s3.rs 119-130: prefixes.into_iter().filter_map(|o| o.prefix).filter_map(..)
RECURSIVE PageDirs(_, _)
PageDirs(prefixes, prefix) ==
  IF prefixes = <<>> THEN <<>>
  ELSE (IF IsSome(prefixes[1])
        THEN CleanCommonPrefix(Unwrap(prefixes[1]), prefix)
        ELSE None)
       \o PageDirs(Tail(prefixes), prefix)

\* s3.rs 136-153: objects.into_iter().filter_map(|o| o.key).filter_map(..)
RECURSIVE PageFiles(_, _)
PageFiles(objects, prefix) ==
  IF objects = <<>> THEN <<>>
  ELSE (IF IsSome(objects[1])
        THEN KeepKey(Unwrap(objects[1]), prefix)
        ELSE None)
       \o PageFiles(Tail(objects), prefix)

\* s3.rs 117-132: results.extend(..) when output.common_prefixes is Some
ExtendResults(results, output, prefix) ==
  IF IsSome(output.common_prefixes)
  THEN results \o PageDirs(Unwrap(output.common_prefixes), prefix)
  ELSE results

\* s3.rs 134-155: files.extend(..) when output.contents is Some
ExtendFiles(files, output, prefix) ==
  IF IsSome(output.contents)
  THEN files \o PageFiles(Unwrap(output.contents), prefix)
  ELSE files

\* s3.rs 166-171: sort both, directories first
ListFilesReturn(results, files) == SortUnstable(results) \o SortUnstable(files)


(***************************************************************************)
(* The strings the storage service is let to answer with, and the          *)
(* listings asked of it.                                                   *)
(***************************************************************************)
\* "photos/"
PFX_PHOTOS_SLASH == <<"p", "h", "o", "t", "o", "s", "/">>
\* "photos"
PFX_PHOTOS == <<"p", "h", "o", "t", "o", "s">>
\* "photos/2024/"
CP_PHOTOS_2024 == <<"p", "h", "o", "t", "o", "s", "/", "2", "0", "2", "4", "/">>
\* "docs/"
CP_DOCS == <<"d", "o", "c", "s", "/">>
\* "photos/cover.jpg"
KEY_COVER == <<"p", "h", "o", "t", "o", "s", "/", "c", "o", "v", "e", "r", ".", "j", "p", "g">>
\* "photos/b"
KEY_B == <<"p", "h", "o", "t", "o", "s", "/", "b">>
\* "photos/2024/x"
KEY_DEEP == <<"p", "h", "o", "t", "o", "s", "/", "2", "0", "2", "4", "/", "x">>
\* "a"
KEY_A == <<"a">>
\* "2024"
NAME_2024 == <<"2", "0", "2", "4">>
\* "cover.jpg"
NAME_COVER == <<"c", "o", "v", "e", "r", ".", "j", "p", "g">>
\* "mybucket"
MYBUCKET == <<"m", "y", "b", "u", "c", "k", "e", "t">>

\* the bucket and prefix arguments of list_files
ListBuckets == {MYBUCKET}
ListPrefixes == {None, Some(PFX_PHOTOS_SLASH), Some(PFX_PHOTOS)}

\* CommonPrefix.prefix and Object.key are Option<String>
CommonPrefixPool == {Some(CP_PHOTOS_2024), Some(CP_DOCS), None}
ObjectKeyPool == {Some(KEY_COVER), Some(KEY_B), Some(KEY_DEEP), Some(KEY_A)}
Tokens == {"t1", "t2"}

SeqsUpTo(S, n) == UNION {[1..k -> S] : k \in 0..n}

VARIABLES lf_pc, \* "idle", "await" (a list_objects_v2 request is out), "done"
  lf_prefix,     \* the prefix argument
  lf_params,     \* params: bucket, prefix, delimiter, continuation_token
  lf_results,    \* results
  lf_files,      \* files
  lf_ret,        \* what list_files returned
  lf_requests,   \* every request sent to the service, in order
  lf_responses   \* every response of the service, in order

lf_vars ==
  << lf_pc, lf_prefix, lf_params, lf_results, lf_files, lf_ret,
     lf_requests, lf_responses >>

VARIABLES local_cwd, \* Runner.local_cwd
  remote_cwd,    \* Runner.remote_cwd
  fs_files,      \* the regular files of the local disk: canonical path -> content
  s3_objects,    \* the objects of the store: <<bucket, key>> -> content
  transfers,     \* download_object and put_object calls so far
  rl,            \* run_loop: "readline", "ran" (a command has returned), "ended"
  last           \* the last command: what it was, what it called, what it returned

session_vars ==
  << local_cwd, remote_cwd, fs_files, s3_objects, transfers, rl, last >>

VARIABLES tp_path, \* the path S3Path::try_from_path is called with
  tp_ret         \* what it returned, call after call

tp_vars == << tp_path, tp_ret >>

VARIABLES pc_line, \* the line run_loop has read in this turn
  pc_ret,        \* what parse_command made of it
  loop_ret       \* what run_loop returned, once it has

line_vars == << pc_line, pc_ret, loop_ret >>

vars == << lf_vars, session_vars, tp_vars, line_vars >>



InitList ==
  /\ lf_pc = "idle"
  /\ lf_prefix = None
  /\ lf_params = [bucket |-> <<>>, prefix |-> None, delimiter |-> None,
                  continuation_token |-> None]
  /\ lf_results = <<>>
  /\ lf_files = <<>>
  /\ lf_ret = NoRet
  /\ lf_requests = <<>>
  /\ lf_responses = <<>>

\* number of entries a response carries
EntriesOf(output) ==
  (IF IsSome(output.common_prefixes) THEN Len(Unwrap(output.common_prefixes)) ELSE 0)
  + (IF IsSome(output.contents) THEN Len(Unwrap(output.contents)) ELSE 0)

RECURSIVE EntriesSoFar(_)
EntriesSoFar(responses) ==
  IF responses = <<>> THEN 0
  ELSE EntriesOf(responses[1]) + EntriesSoFar(Tail(responses))

\* the responses the service may give: at most `room` entries in all
Outputs(next_token, room) ==
  UNION { { [common_prefixes |-> OptVec(cps), contents |-> OptVec(objs),
             next_continuation_token |-> next_token] :
              cps \in [1..n -> CommonPrefixPool],
              objs \in SeqsUpTo(ObjectKeyPool, room - n) } : n \in 0..room }

\* s3.rs 90-108: the call, up to the first list_objects_v2 request
ListFilesCall(bucket, prefix) ==
  /\ lf_pc = "idle"
  /\ LET params == [bucket |-> bucket, prefix |-> prefix,
                    delimiter |-> Some(<<SLASH>>), continuation_token |-> None]
     IN /\ lf_params' = params
        /\ lf_requests' = <<params>>
  /\ lf_prefix' = prefix
  /\ lf_results' = <<>>
  /\ lf_files' = <<>>
  /\ lf_pc' = "await"
  /\ UNCHANGED << lf_ret, lf_responses >>

\* the next request sent as the first was, the token of the response dropped
ListFilesPageMore_TokenDropped(output) ==
  /\ lf_pc = "await"
  /\ IsSome(output.next_continuation_token)
  /\ lf_results' = ExtendResults(lf_results, output, lf_prefix)
  /\ lf_files' = ExtendFiles(lf_files, output, lf_prefix)
  /\ lf_requests' = Append(lf_requests, lf_params)
  /\ lf_responses' = Append(lf_responses, output)
  /\ UNCHANGED << lf_pc, lf_prefix, lf_ret, lf_params >>

\* s3.rs 110-160: a response with a continuation token; loop and ask again
ListFilesPageMore(output) ==
  /\ lf_pc = "await"
  /\ IsSome(output.next_continuation_token)
  /\ lf_results' = ExtendResults(lf_results, output, lf_prefix)
  /\ lf_files' = ExtendFiles(lf_files, output, lf_prefix)
  /\ lf_params' = [lf_params EXCEPT
                     !.continuation_token = output.next_continuation_token]
  /\ lf_requests' = Append(lf_requests, lf_params')
  /\ lf_responses' = Append(lf_responses, output)
  /\ UNCHANGED << lf_pc, lf_prefix, lf_ret >>

\* s3.rs 110-171: a response without a token; break, sort, return
ListFilesPageLast(output) ==
  /\ lf_pc = "await"
  /\ ~IsSome(output.next_continuation_token)
  /\ lf_results' = ExtendResults(lf_results, output, lf_prefix)
  /\ lf_files' = ExtendFiles(lf_files, output, lf_prefix)
  /\ lf_ret' = Ok(ListFilesReturn(lf_results', lf_files'))
  /\ lf_responses' = Append(lf_responses, output)
  /\ lf_pc' = "done"
  /\ UNCHANGED << lf_prefix, lf_params, lf_requests >>

\* the request failed and what the pages before it gave is returned
ListFilesPageFail_PartialListing ==
  /\ lf_pc = "await"
  /\ lf_ret' = Ok(ListFilesReturn(lf_results, lf_files))
  /\ lf_pc' = "done"
  /\ UNCHANGED << lf_prefix, lf_params, lf_results, lf_files, lf_requests,
                  lf_responses >>

\* s3.rs 111-115: the request failed; map_err(RBError::wrap_s3)?
ListFilesPageFail ==
  /\ lf_pc = "await"
  /\ lf_ret' = Err("S3")
  /\ lf_pc' = "done"
  /\ UNCHANGED << lf_prefix, lf_params, lf_results, lf_files, lf_requests,
                  lf_responses >>

\* entries the service may still return in this listing
Room == MaxEntries - EntriesSoFar(lf_responses)

NextList ==
  \/ \E bucket \in ListBuckets, prefix \in ListPrefixes :
       ListFilesCall(bucket, prefix)
  \/ /\ Len(lf_responses) < MaxMorePages
     /\ \E tok \in Tokens : \E output \in Outputs(Some(tok), Room) :
          ListFilesPageMore(output)
  \/ \E output \in Outputs(None, Room) : ListFilesPageLast(output)
  \/ ListFilesPageFail




(***************************************************************************)
(* Properties of list_files.                                               *)
(***************************************************************************)
Returned == lf_pc = "done" /\ lf_ret.kind = "Ok"

\* everything the service sent, in order of arrival
RECURSIVE AllCommonPrefixes(_)
AllCommonPrefixes(responses) ==
  IF responses = <<>> THEN <<>>
  ELSE (IF IsSome(responses[1].common_prefixes)
        THEN Unwrap(responses[1].common_prefixes) ELSE <<>>)
       \o AllCommonPrefixes(Tail(responses))

RECURSIVE AllObjectKeys(_)
AllObjectKeys(responses) ==
  IF responses = <<>> THEN <<>>
  ELSE (IF IsSome(responses[1].contents)
        THEN Unwrap(responses[1].contents) ELSE <<>>)
       \o AllObjectKeys(Tail(responses))

\* the queried prefix as a string ("" when absent)
PrefixStr == IF IsSome(lf_prefix) THEN Unwrap(lf_prefix) ELSE <<>>

\* x is the entry o (an Option<String>) relative to the queried prefix
IsRelative(x, o) == IsSome(o) /\ Unwrap(o) = PrefixStr \o x

\* a file of the listing: below the prefix, with no delimiter left
IsListedFile(x, o) == IsRelative(x, o) /\ \A i \in 1..Len(x) : x[i] # SLASH

Occurrences(s, x) == Cardinality({i \in 1..Len(s) : s[i] = x})

IsSorted(s) == \A i \in 1..Len(s) - 1 : StrLeq(s[i], s[i + 1])

\* the strings the entries of `all` below the queried prefix stand for
Names(all) ==
  { SubSeq(Unwrap(all[i]), Len(PrefixStr) + 1, Len(Unwrap(all[i]))) :
      i \in {j \in 1..Len(all) : IsSome(all[j]) /\ StartsWith(Unwrap(all[j]), PrefixStr)} }

\* s is sorted and holds x as often as `all` holds an entry that R relates to x
IsSortOf(s, all, R(_, _)) ==
  /\ IsSorted(s)
  /\ \A x \in Names(all) \cup {s[i] : i \in 1..Len(s)} :
       Occurrences(s, x) = Cardinality({i \in 1..Len(all) : R(x, all[i])})

\* how many common prefixes of all pages lie below the queried prefix
NumDirs ==
  LET all == AllCommonPrefixes(lf_responses)
  IN Cardinality({i \in 1..Len(all) :
                    IsSome(all[i]) /\ StartsWith(Unwrap(all[i]), PrefixStr)})

DirPart == SubSeq(lf_ret.val, 1, NumDirs)
FilePart == SubSeq(lf_ret.val, NumDirs + 1, Len(lf_ret.val))

\* C1: list_files returns sort(D) ++ sort(F), D the prefix-stripped common
\* prefixes and F the retained prefix-stripped object keys of all pages, a
\* function of the entries alone (not of page boundaries or arrival order).
C1_ListingOrder ==
  Returned =>
    /\ NumDirs <= Len(lf_ret.val)
    /\ IsSortOf(DirPart, AllCommonPrefixes(lf_responses), IsRelative)
    /\ IsSortOf(FilePart, AllObjectKeys(lf_responses), IsListedFile)

\* two pages or more, directories arriving out of order, and a file
C1_Witness ==
  /\ Returned
  /\ Len(lf_responses) >= 2
  /\ NumDirs >= 2
  /\ ~IsSorted(PageDirs(AllCommonPrefixes(lf_responses), lf_prefix))
  /\ Len(FilePart) >= 1

\* C2: no file entry comes from a key whose remainder below the queried
\* prefix contains '/', and a key that does not start with the prefix is
\* never listed, with or without a prefix.
C2_NoNestedFiles ==
  Returned =>
    LET keys == AllObjectKeys(lf_responses)
        files == SubSeq(lf_ret.val, Len(lf_ret.val) - Len(lf_files) + 1,
                        Len(lf_ret.val))
    IN /\ \A i \in 1..Len(files) :
            /\ ~Contains(files[i], SLASH)
            /\ \E j \in 1..Len(keys) : IsRelative(files[i], keys[j])
       /\ Len(files) =
            Cardinality({j \in 1..Len(keys) :
              /\ IsSome(keys[j])
              /\ StartsWith(Unwrap(keys[j]), PrefixStr)
              /\ ~Contains(SubSeq(Unwrap(keys[j]), Len(PrefixStr) + 1,
                                  Len(Unwrap(keys[j]))), SLASH)})

\* a prefix is given; one key is nested, one is outside the prefix, one is kept
C2_Witness ==
  /\ Returned
  /\ lf_prefix = Some(PFX_PHOTOS_SLASH)
  /\ \E i, j, k \in 1..Len(AllObjectKeys(lf_responses)) :
       /\ AllObjectKeys(lf_responses)[i] = Some(KEY_DEEP)
       /\ AllObjectKeys(lf_responses)[j] = Some(KEY_A)
       /\ AllObjectKeys(lf_responses)[k] = Some(KEY_COVER)
  /\ lf_ret.val = <<NAME_COVER>>

\* C6: a directory entry is the common prefix relative to the queried prefix
\* without its trailing delimiter: prefix "photos/", common prefix
\* "photos/2024/" and key "photos/cover.jpg" list as ["2024", "cover.jpg"],
\* and no directory entry ends with '/'.
C6_DirsWithoutDelimiter ==
  Returned =>
    /\ \A i \in 1..Len(lf_results) : ~EndsWith(lf_ret.val[i], SLASH)
    /\ ( /\ lf_prefix = Some(PFX_PHOTOS_SLASH)
         /\ lf_responses =
              << [common_prefixes |-> Some(<<Some(CP_PHOTOS_2024)>>),
                  contents |-> Some(<<Some(KEY_COVER)>>),
                  next_continuation_token |-> None] >> )
       => lf_ret.val = <<NAME_2024, NAME_COVER>>


(***************************************************************************)
(* The local file system and the object store the session works on.       *)
(***************************************************************************)
\* "/"
L_ROOT == <<"/">>
\* "/home"
L_HOME == <<"/", "h", "o", "m", "e">>
\* "/home/u"
L_HOME_U == <<"/", "h", "o", "m", "e", "/", "u">>
\* "/home/u/backup"
L_BACKUP == <<"/", "h", "o", "m", "e", "/", "u", "/", "b", "a", "c", "k", "u", "p">>
\* "/home/u/bk"
L_BK == <<"/", "h", "o", "m", "e", "/", "u", "/", "b", "k">>
\* "/home/u/notes.txt"
L_NOTES == <<"/", "h", "o", "m", "e", "/", "u", "/", "n", "o", "t", "e", "s", ".", "t", "x", "t">>
\* "/home/u/backup/out.bin"
L_OLD_OUT == <<"/", "h", "o", "m", "e", "/", "u", "/", "b", "a", "c", "k", "u", "p", "/", "o", "u", "t", ".", "b", "i", "n">>
\* "/mybucket"
A_SLASH_MYBUCKET == <<"/", "m", "y", "b", "u", "c", "k", "e", "t">>
\* ".."
A_DOTDOT == <<".", ".">>
\* "backup"
A_BACKUP == <<"b", "a", "c", "k", "u", "p">>
\* "nosuch"
A_NOSUCH == <<"n", "o", "s", "u", "c", "h">>
\* "report.csv"
A_REPORT == <<"r", "e", "p", "o", "r", "t", ".", "c", "s", "v">>
\* "data/out.bin"
A_DATA_OUT == <<"d", "a", "t", "a", "/", "o", "u", "t", ".", "b", "i", "n">>
\* "./backup/"
A_DOT_BACKUP_SLASH == <<".", "/", "b", "a", "c", "k", "u", "p", "/">>
\* "bk"
A_BK == <<"b", "k">>
\* "notes.txt"
A_NOTES == <<"n", "o", "t", "e", "s", ".", "t", "x", "t">>
\* "new.bin"
A_NEW == <<"n", "e", "w", ".", "b", "i", "n">>
\* "nodir/"
A_NODIR_SLASH == <<"n", "o", "d", "i", "r", "/">>
\* "nodir/x"
A_NODIR_X == <<"n", "o", "d", "i", "r", "/", "x">>
\* "./notes.txt"
A_DOT_NOTES == <<".", "/", "n", "o", "t", "e", "s", ".", "t", "x", "t">>
\* "docs/"
A_DOCS_SLASH == <<"d", "o", "c", "s", "/">>
\* "docs/notes.txt"
A_DOCS_NOTES == <<"d", "o", "c", "s", "/", "n", "o", "t", "e", "s", ".", "t", "x", "t">>
\* "report.csv"
K_REPORT == <<"r", "e", "p", "o", "r", "t", ".", "c", "s", "v">>
\* "data/out.bin"
K_DATA_OUT == <<"d", "a", "t", "a", "/", "o", "u", "t", ".", "b", "i", "n">>
\* "docs/notes.txt"
K_DOCS_NOTES == <<"d", "o", "c", "s", "/", "n", "o", "t", "e", "s", ".", "t", "x", "t">>
\* "docs"
K_DOCS == <<"d", "o", "c", "s">>
\* "unknown_s3_file"
UNKNOWN_S3_FILE == <<"u", "n", "k", "n", "o", "w", "n", "_", "s", "3", "_", "f", "i", "l", "e">>

\* the directories of the local disk (the program creates none)
LocalDirs == {L_ROOT, L_HOME, L_HOME_U, L_BACKUP}

\* symbolic links of the local disk: /home/u/bk -> /home/u/backup
LocalSymlinks == [p \in {L_BK} |-> L_BACKUP]

\* a path below the directory cur
Child(cur, seg) == IF cur = ROOT THEN ROOT \o seg ELSE cur \o <<SLASH>> \o seg

\* What the operating system makes of a path: it walks the segments from
\* the root (or the working directory), follows symbolic links, and a
\* trailing separator asks for a directory.
RECURSIVE Walk(_, _, _)
Walk(cur, segs, files) ==
  IF segs = <<>> THEN [ok |-> TRUE, path |-> cur, kind |-> "dir"]
  ELSE IF segs[1] = CURDIR THEN Walk(cur, Tail(segs), files)
  ELSE IF segs[1] = DOTDOT THEN Walk(Pop(cur), Tail(segs), files)
  ELSE LET named == Child(cur, segs[1])
           child == IF named \in DOMAIN LocalSymlinks
                    THEN LocalSymlinks[named] ELSE named
       IN IF child \in LocalDirs THEN Walk(child, Tail(segs), files)
          ELSE IF child \in DOMAIN files
          THEN IF Tail(segs) = <<>>
               THEN [ok |-> TRUE, path |-> child, kind |-> "file"]
               ELSE [ok |-> FALSE, err |-> "NotADirectory"]
          ELSE [ok |-> FALSE, err |-> "NotFound"]

\* A relative path starts at the working directory of the process, which
\* set_current_dir (lib.rs 197) keeps at local_cwd.
Resolve(path, files) ==
  Walk(IF HasRoot(path) THEN ROOT ELSE local_cwd,
       Segments(path) \o (IF EndsWith(path, SLASH) THEN <<CURDIR>> ELSE <<>>),
       files)

\* Path::is_dir, Path::is_file, Path::canonicalize
IsDir(path, files) ==
  LET r == Resolve(path, files) IN r.ok /\ r.kind = "dir"

IsFile(path, files) ==
  LET r == Resolve(path, files) IN r.ok /\ r.kind = "file"

Canonicalize(path, files) ==
  LET r == Resolve(path, files)
  IN IF r.ok THEN Ok(r.path) ELSE Err("IO")

\* File::create (s3.rs 210): the file is created or truncated; it fails on
\* a directory and where the parent is no directory
FileCreateIn(r, name, dir) ==
  IF r.ok
  THEN IF r.kind = "file" THEN Ok(r.path) ELSE Err("IO")
  ELSE IF r.err = "NotFound" /\ IsSome(name) /\ dir.ok /\ dir.kind = "dir"
           /\ Child(dir.path, Unwrap(name)) \notin DOMAIN LocalSymlinks
       THEN Ok(Child(dir.path, Unwrap(name)))
       ELSE Err("IO")

FileCreate(path, files) ==
  FileCreateIn(Resolve(path, files), FileName(path), Resolve(Pop(path), files))

\* f with x mapped to v
Put(f, x, v) == [y \in DOMAIN f \cup {x} |-> IF y = x THEN v ELSE f[y]]


(***************************************************************************)
(* get: the download target (commands.rs get_file, lib.rs GetFile arm).    *)
(***************************************************************************)
\* commands.rs 51 and lib.rs 223: remote_cwd.join(remote_source).clean()
SourcePath(cwd, remote_source) == Clean(Join(cwd, remote_source))

\* source_path.file_name().unwrap_or(OsStr::new("unknown_s3_file"))
SourceFileName(source_path) ==
  IF IsSome(FileName(source_path)) THEN Unwrap(FileName(source_path))
  ELSE UNKNOWN_S3_FILE

\* the directory as the user wrote it, joined with the file name
DirTargetCmd_NonCanonical(non_canonical_path, source_path, files) ==
  Ok(Join(non_canonical_path, SourceFileName(source_path)))

\* commands.rs 66-74: the destination is a directory
DirTargetCmd(non_canonical_path, source_path, files) ==
  LET dest_dir == Canonicalize(non_canonical_path, files)
  IN IF dest_dir.kind = "Err" THEN Err("IO")
     ELSE Ok(Join(dest_dir.val, SourceFileName(source_path)))

\* the new file named after the source, not as the user named it
NewFileTargetCmd_SourceName(non_canonical_path, source_path, files) ==
  IF IsDir(Pop(non_canonical_path), files)
  THEN Ok(Join(Canonicalize(Pop(non_canonical_path), files).val,
               SourceFileName(source_path)))
  ELSE Err("InvalidTarget")

\* commands.rs 89-106: the destination names a file that is not there yet
NewFileTargetCmd(non_canonical_path, source_path, files) ==
  LET path_without_filename == Pop(non_canonical_path)
      dest_dir == Canonicalize(path_without_filename, files)
  IN IF IsDir(path_without_filename, files)
     THEN IF dest_dir.kind = "Err" THEN Err("IO")
          ELSE Ok(Join(dest_dir.val,
                       IF IsSome(FileName(non_canonical_path))
                       THEN Unwrap(FileName(non_canonical_path))
                       ELSE SourceFileName(source_path)))
     ELSE Err("InvalidTarget")

\* commands.rs 110-118: no destination; local_cwd joined with the file name
NoDestTargetCmd(cwd, source_path, files) ==
  IF ~IsSome(FileName(source_path)) THEN Err("Other")
  ELSE LET dest_filepath == Join(cwd, Unwrap(FileName(source_path)))
       IN IF IsFile(dest_filepath, files)
          THEN Err("TargetAlreadyExists")
          ELSE Ok(dest_filepath)

\* dest_path with no look at a separator at the end of the destination
DestPathCmd_NoSeparatorTest(cwd, source_path, local_destination, files) ==
  IF IsSome(local_destination)
  THEN IF IsDir(Join(cwd, Unwrap(local_destination)), files)
       THEN DirTargetCmd(Join(cwd, Unwrap(local_destination)), source_path, files)
       ELSE IF IsFile(Join(cwd, Unwrap(local_destination)), files)
       THEN Err("TargetAlreadyExists")
       ELSE NewFileTargetCmd(Join(cwd, Unwrap(local_destination)), source_path,
                             files)
  ELSE NoDestTargetCmd(cwd, source_path, files)

\* commands.rs 59-119: dest_path
DestPathCmd(cwd, source_path, local_destination, files) ==
  IF IsSome(local_destination)
  THEN LET non_canonical_path == Join(cwd, Unwrap(local_destination))
       IN IF IsDir(non_canonical_path, files)
          THEN DirTargetCmd(non_canonical_path, source_path, files)
          ELSE IF IsFile(non_canonical_path, files)
          THEN Err("TargetAlreadyExists")
          ELSE IF EndsWith(non_canonical_path, SLASH)
                  \/ EndsWith(non_canonical_path, BACKSLASH)
          THEN Err("InvalidTarget")
          ELSE NewFileTargetCmd(non_canonical_path, source_path, files)
  ELSE NoDestTargetCmd(cwd, source_path, files)

\* lib.rs 238-246: the destination is a directory
DirTargetLib(non_canonical_path, source_path, files) ==
  LET dest_dir == Canonicalize(non_canonical_path, files)
  IN IF dest_dir.kind = "Err" THEN Err("IO")
     ELSE Ok(Join(dest_dir.val, SourceFileName(source_path)))

\* the new file taken as written, its parent not looked at
NewFileTargetLib_NoDirCheck(non_canonical_path, source_path, files) ==
  Ok(non_canonical_path)

\* lib.rs 262-280: the destination names a file that is not there yet
NewFileTargetLib(non_canonical_path, source_path, files) ==
  LET path_without_filename == Pop(non_canonical_path)
      dest_dir == Canonicalize(path_without_filename, files)
  IN IF IsDir(path_without_filename, files)
     THEN IF dest_dir.kind = "Err" THEN Err("IO")
          ELSE Ok(Join(dest_dir.val,
                       IF IsSome(FileName(non_canonical_path))
                       THEN Unwrap(FileName(non_canonical_path))
                       ELSE SourceFileName(source_path)))
     ELSE Err("InvalidTarget")

\* lib.rs 284-288: no destination; no look at what is there
NoDestTargetLib(cwd, source_path, files) ==
  IF ~IsSome(FileName(source_path)) THEN Err("Other")
  ELSE Ok(Join(cwd, Unwrap(FileName(source_path))))

\* lib.rs 231-289: dest_path
DestPathLib(cwd, source_path, local_destination, files) ==
  IF IsSome(local_destination)
  THEN LET non_canonical_path == Join(cwd, Unwrap(local_destination))
       IN IF IsDir(non_canonical_path, files)
          THEN DirTargetLib(non_canonical_path, source_path, files)
          ELSE IF IsFile(non_canonical_path, files)
                  \/ EndsWith(non_canonical_path, SLASH)
                  \/ EndsWith(non_canonical_path, BACKSLASH)
          THEN Err("InvalidTarget")
          ELSE NewFileTargetLib(non_canonical_path, source_path, files)
  ELSE NoDestTargetLib(cwd, source_path, files)


(***************************************************************************)
(* The storage service, as the code meets it.                              *)
(***************************************************************************)
\* "archive"
ARCHIVE == <<"a", "r", "c", "h", "i", "v", "e">>

Buckets == {MYBUCKET, ARCHIVE}

\* what a truncated and an untouched local file hold
EMPTY == "empty"
ORIGINAL == "original"

HasObject(objects, bucket, key) == <<bucket, key>> \in DOMAIN objects

\* how get_object and the copy of its body may end (s3.rs 212-228)
GetObjectOutcomes(objects, bucket, key) ==
  IF HasObject(objects, bucket, key)
  THEN {"body", "no_body", "s3_error"}
  ELSE {"s3_error"}

\* s3.rs 194-229: download_object. The local file is created first.
DownloadInto(dest_file, bucket, key, dest_path, outcome, files, objects) ==
  LET call == [op |-> "download_object", bucket |-> bucket, key |-> key,
               path |-> dest_path]
  IN IF dest_file.kind = "Err"
     THEN [result |-> Err("IO"), files |-> files, calls |-> <<call>>]
     ELSE LET created == Put(files, dest_file.val, EMPTY)
              get == [op |-> "get_object", bucket |-> bucket, key |-> key,
                      path |-> dest_file.val]
          IN IF outcome = "s3_error" \/ outcome = "no_body"
             THEN [result |-> Err("S3"), files |-> created,
                   calls |-> <<call, get>>]
             ELSE [result |-> Ok(dest_path),
                   files |-> Put(files, dest_file.val, objects[<<bucket, key>>]),
                   calls |-> <<call, get>>]

DownloadObject(bucket, key, dest_path, outcome, files, objects) ==
  DownloadInto(FileCreate(dest_path, files), bucket, key, dest_path, outcome,
               files, objects)

NoCalls(result, files) == [result |-> result, files |-> files, calls |-> <<>>]

\* commands.rs 52-57 and 59, lib.rs 224-229 and 231: the `?` on
\* try_from_path, the has_key_and_bucket test, then the error of dest_path
GetTarget(s3_path, dest_path) ==
  IF s3_path.kind = "Err" THEN s3_path
  ELSE IF ~HasKeyAndBucket(s3_path.val) THEN Err("InvalidTarget")
  ELSE IF dest_path.kind = "Err" THEN dest_path
  ELSE Ok([bucket |-> Unwrap(s3_path.val.bucket),
           key |-> Unwrap(s3_path.val.key),
           dest_path |-> dest_path.val])

\* commands.rs 51-119: get_file up to the download: bucket, key, dest_path
GetTargetCmd(r_cwd, l_cwd, remote_source, local_destination, files) ==
  GetTarget(TryFromPath(SourcePath(r_cwd, remote_source)),
            DestPathCmd(l_cwd, SourcePath(r_cwd, remote_source),
                        local_destination, files))

\* lib.rs 223-289: the GetFile arm up to the download: bucket, key, dest_path
GetTargetLib(r_cwd, l_cwd, remote_source, local_destination, files) ==
  GetTarget(TryFromPath(SourcePath(r_cwd, remote_source)),
            DestPathLib(l_cwd, SourcePath(r_cwd, remote_source),
                        local_destination, files))

\* commands.rs 121-133 and lib.rs 291-303: an error so far is returned,
\* else download_object is called and its error, if any, returned
GetFile(target, outcome, files, objects) ==
  IF target.kind = "Err" THEN NoCalls(target, files)
  ELSE DownloadObject(target.val.bucket, target.val.key, target.val.dest_path,
                      outcome, files, objects)

\* the ways the remote calls of a get may end
GetOutcomes(target) ==
  IF target.kind = "Err" THEN {"none"}
  ELSE GetObjectOutcomes(s3_objects, target.val.bucket, target.val.key)

(***************************************************************************)
(* put (commands.rs put_file, lib.rs PutFile arm).                         *)
(***************************************************************************)
\* s3.rs 174-192: object_exists lists with prefix = key and no delimiter and
\* looks at key_count, the number of keys the service found
KeyCount(objects, bucket, prefix) ==
  Cardinality({bk \in DOMAIN objects : bk[1] = bucket /\ StartsWith(bk[2], prefix)})

ObjectExists(objects, bucket, key) == KeyCount(objects, bucket, key) # 0

\* commands.rs 152-162: dest_path
PutDestPath(r_cwd, src_path, remote_destination) ==
  IF IsSome(remote_destination)
  THEN Clean(Join(r_cwd, Unwrap(remote_destination)))
  ELSE Clean(Join(r_cwd, Unwrap(FileName(src_path))))

\* s3.rs 231-257: put_object
PutObject(bucket, key, source_path, outcome, files, objects) ==
  LET call == [op |-> "put_object", bucket |-> bucket, key |-> key,
               path |-> source_path]
  IN IF source_path \notin DOMAIN files
     THEN [result |-> Err("IO"), objects |-> objects, calls |-> <<call>>]
     ELSE IF outcome = "s3_error"
     THEN [result |-> Err("S3"), objects |-> objects, calls |-> <<call>>]
     ELSE [result |-> Ok(<<bucket, key>>),
           objects |-> Put(objects, <<bucket, key>>, files[source_path]),
           calls |-> <<call>>]

NoPut(result, objects, calls) ==
  [result |-> result, objects |-> objects, calls |-> calls]

\* commands.rs 136-185: put_file. probe is how the existence probe ends,
\* outcome how the upload ends.
\* commands.rs 171-184: the probe, then the upload
PutFileTo(bucket, key, src_path, probe, outcome, files, objects) ==
  LET exists == [op |-> "object_exists", bucket |-> bucket, key |-> key,
                 path |-> src_path]
  IN IF probe = "s3_error" \/ bucket \notin Buckets
     THEN NoPut(Err("S3"), objects, <<exists>>)
     ELSE IF ObjectExists(objects, bucket, key)
     THEN NoPut(Err("TargetAlreadyExists"), objects, <<exists>>)
     ELSE [PutObject(bucket, key, src_path, outcome, files, objects)
             EXCEPT !.calls = <<exists>> \o @]

\* commands.rs 164-169: the target of the upload
PutFileAt(s3_path, src_path, probe, outcome, files, objects) ==
  IF s3_path.kind = "Err" THEN NoPut(s3_path, objects, <<>>)
  ELSE IF ~HasKeyAndBucket(s3_path.val)
  THEN NoPut(Err("InvalidTarget"), objects, <<>>)
  ELSE PutFileTo(Unwrap(s3_path.val.bucket), Unwrap(s3_path.val.key),
                 src_path, probe, outcome, files, objects)

\* commands.rs 143-162: the source must be a regular file
PutFileFrom(src_path, r_cwd, remote_destination, probe, outcome, files, objects) ==
  IF src_path.kind = "Err" THEN NoPut(Err("IO"), objects, <<>>)
  ELSE IF ~IsFile(src_path.val, files)
  THEN NoPut(Err("InvalidTarget"), objects, <<>>)
  ELSE PutFileAt(TryFromPath(PutDestPath(r_cwd, src_path.val,
                                         remote_destination)),
                 src_path.val, probe, outcome, files, objects)

PutFileCmd(r_cwd, l_cwd, local_source, remote_destination, probe, outcome, files, objects) ==
  PutFileFrom(Canonicalize(Join(l_cwd, local_source), files), r_cwd,
              remote_destination, probe, outcome, files, objects)

\* lib.rs 305-311: Runner::run_command, the PutFile arm ("todo impl")
PutFileLib(r_cwd, l_cwd, local_source, remote_destination, files, objects) ==
  NoPut(Ok(<<"o", "k">>), objects, <<>>)


(***************************************************************************)
(* ls: the listing of the remote directory.                                *)
(***************************************************************************)
NEWLINE == "\n"
\* "There are no files at this path.\n"
NO_FILES == <<"T", "h", "e", "r", "e", " ", "a", "r", "e", " ", "n", "o", " ", "f", "i", "l", "e", "s", " ", "a", "t", " ", "t", "h", "i", "s", " ", "p", "a", "t", "h", ".", "\n">>
\* "/archive/old"
A_SLASH_ARCHIVE_OLD == <<"/", "a", "r", "c", "h", "i", "v", "e", "/", "o", "l", "d">>
\* "/nosuch"
A_SLASH_NOSUCH == <<"/", "n", "o", "s", "u", "c", "h">>
\* "/mybucket/data"
A_SLASH_MYBUCKET_DATA == <<"/", "m", "y", "b", "u", "c", "k", "e", "t", "/", "d", "a", "t", "a">>

\* the orders a set of names can be told in
RECURSIVE Orders(_)
Orders(S) ==
  IF S = {} THEN {<<>>}
  ELSE UNION {{<<x>> \o o : o \in Orders(S \ {x})} : x \in S}

\* ListBucketsOutput.buckets is Option<Vec<Bucket>>, Bucket.name Option<String>
WrapAll(v) == [i \in 1..Len(v) |-> Some(v[i])]

\* what the service may answer to list_buckets: an error, or the buckets in
\* an order of its own
BucketAnswers ==
  {[ok |-> FALSE, buckets |-> None]}
  \cup {[ok |-> TRUE, buckets |-> Some(WrapAll(o))] : o \in Orders(Buckets)}

\* s3.rs 80-85: unwrap_or(vec![]), filter_map(|bucket| bucket.name)
RECURSIVE BucketNames(_)
BucketNames(buckets) ==
  IF buckets = <<>> THEN <<>> ELSE buckets[1] \o BucketNames(Tail(buckets))

\* s3.rs 77-88: list_buckets; the names are collected as they came
ListBucketsOf(answer) ==
  LET call == [op |-> "list_buckets"]
  IN IF ~answer.ok THEN [result |-> Err("S3"), calls |-> <<call>>]
     ELSE [result |-> Ok(BucketNames(IF IsSome(answer.buckets)
                                     THEN Unwrap(answer.buckets) ELSE <<>>)),
           calls |-> <<call>>]

\* the keys of a bucket that start with pfx
KeysBelow(objects, bucket, pfx) ==
  {bk[2] : bk \in {x \in DOMAIN objects : x[1] = bucket /\ StartsWith(x[2], pfx)}}

AfterPrefix(key, pfx) == SubSeq(key, Len(pfx) + 1, Len(key))

FirstDelimiter(s) ==
  CHOOSE i \in 1..Len(s) : s[i] = SLASH /\ \A j \in 1..(i - 1) : s[j] # SLASH

\* the service rolls a key up into a common prefix when the delimiter
\* occurs after the prefix: the key up to and with that delimiter
RolledUp(key, pfx) == Contains(AfterPrefix(key, pfx), SLASH)
CommonPrefixOf(key, pfx) ==
  pfx \o SubSeq(AfterPrefix(key, pfx), 1, FirstDelimiter(AfterPrefix(key, pfx)))

RECURSIVE SetToSeq(_)
SetToSeq(S) ==
  IF S = {} THEN <<>>
  ELSE LET x == CHOOSE y \in S : TRUE IN <<x>> \o SetToSeq(S \ {x})

\* the one page list_objects_v2 answers with for a prefix and delimiter "/"
ListObjectsV2Of(keys, pfx) ==
  [common_prefixes |->
     OptVec(WrapAll(SortUnstable(SetToSeq(
       {CommonPrefixOf(k, pfx) : k \in {x \in keys : RolledUp(x, pfx)}})))),
   contents |->
     OptVec(WrapAll(SortUnstable(SetToSeq({x \in keys : ~RolledUp(x, pfx)})))),
   next_continuation_token |-> None]

ListObjectsV2(objects, bucket, prefix) ==
  ListObjectsV2Of(
    KeysBelow(objects, bucket, IF IsSome(prefix) THEN Unwrap(prefix) ELSE <<>>),
    IF IsSome(prefix) THEN Unwrap(prefix) ELSE <<>>)

\* s3.rs 117-171 on a listing of one page
ListFilesOnePage(output, prefix) ==
  ListFilesReturn(ExtendResults(<<>>, output, prefix),
                  ExtendFiles(<<>>, output, prefix))

\* s3.rs 90-172: list_files, the request it sends and what it returns
ListFilesOf(bucket, prefix, answer, objects) ==
  LET call == [op |-> "list_files", bucket |-> bucket, prefix |-> prefix]
  IN IF ~answer.ok \/ bucket \notin Buckets
     THEN [result |-> Err("S3"), calls |-> <<call>>]
     ELSE [result |-> Ok(ListFilesOnePage(ListObjectsV2(objects, bucket, prefix),
                                          prefix)),
           calls |-> <<call>>]

\* lib.rs 156-160 and commands.rs 19-23: the text of a listing of files
FilesText(listed) ==
  IF listed.result.kind = "Err" THEN listed
  ELSE IF listed.result.val = <<>>
  THEN [listed EXCEPT !.result = Ok(NO_FILES)]
  ELSE [listed EXCEPT !.result = Ok(JoinWith(listed.result.val, <<NEWLINE>>))]

\* lib.rs 162-163 and commands.rs 25-26: buckets.join("\n")
BucketsText(listed) ==
  IF listed.result.kind = "Err" THEN listed
  ELSE [listed EXCEPT !.result = Ok(JoinWith(listed.result.val, <<NEWLINE>>))]

\* commands.rs 17: key.map(|k| k + "/")
KeyPrefix(key) == IF IsSome(key) THEN Some(Unwrap(key) \o <<SLASH>>) ELSE None

\* commands.rs 11-28: list_remote_path
ListRemotePath(s3_path, answer, objects) ==
  IF HasBucket(s3_path)
  THEN FilesText(ListFilesOf(Unwrap(s3_path.bucket), KeyPrefix(s3_path.key),
                             answer, objects))
  ELSE BucketsText(ListBucketsOf(answer))

\* lib.rs 148-173: the ListRemoteDirectory arm; the key goes to list_files
\* as it is
ListRemoteDirectory(s3_path, answer, objects) ==
  IF s3_path.kind = "Err" THEN BucketsText(ListBucketsOf(answer))
  ELSE IF HasBucket(s3_path.val)
  THEN FilesText(ListFilesOf(Unwrap(s3_path.val.bucket), s3_path.val.key,
                             answer, objects))
  ELSE BucketsText(ListBucketsOf(answer))


\* the names read_dir finds in a directory of the disk
DirEntries(dir, files) ==
  {Unwrap(FileName(p)) :
     p \in {q \in (LocalDirs \cup DOMAIN files \cup DOMAIN LocalSymlinks) :
              q # ROOT /\ Pop(q) = dir}}

\* lib.rs 174-184: the ListLocalDirectory arm; read_dir or an entry of it
\* may fail
ListLocalDirectory(dir, outcome, files) ==
  IF outcome = "io_error" THEN Err("IO")
  ELSE Ok(JoinWith(SortUnstable(SetToSeq(DirEntries(dir, files))), <<NEWLINE>>))

(***************************************************************************)
(* parse_command (lib.rs 42-121), on the characters of the line.           *)
(***************************************************************************)
SPACE == " "
TAB == "\t"

\* char::is_whitespace, for the blanks a line of the model can hold
IsWhitespace(c) == c = SPACE \/ c = TAB

\* str::trim
RECURSIVE TrimStart(_)
TrimStart(s) ==
  IF s # <<>> /\ IsWhitespace(s[1]) THEN TrimStart(Tail(s)) ELSE s

RECURSIVE TrimEnd(_)
TrimEnd(s) ==
  IF s # <<>> /\ IsWhitespace(s[Len(s)])
  THEN TrimEnd(SubSeq(s, 1, Len(s) - 1)) ELSE s

Trim(s) == TrimEnd(TrimStart(s))

\* char::to_lowercase on the letters of Alphabet: "A".."Z" stand 28 places
\* before "a".."z"
ToLowerChar(c) ==
  IF \E i \in 1..Len(Alphabet) : Alphabet[i] = c /\ Code("A") <= i /\ i <= Code("Z")
  THEN Alphabet[Code(c) + (Code("a") - Code("A"))]
  ELSE c

\* str::to_lowercase
ToLowercase(s) == [i \in 1..Len(s) |-> ToLowerChar(s[i])]

\* str::split_whitespace: the words of s, none of them empty
RECURSIVE SplitFrom(_, _)
SplitFrom(s, cur) ==
  IF s = <<>> THEN (IF cur = <<>> THEN <<>> ELSE <<cur>>)
  ELSE IF IsWhitespace(s[1])
  THEN (IF cur = <<>> THEN <<>> ELSE <<cur>>) \o SplitFrom(Tail(s), <<>>)
  ELSE SplitFrom(Tail(s), Append(cur, s[1]))

SplitWhitespace(s) == SplitFrom(s, <<>>)

\* the verbs parse_command knows (lib.rs 60-106) and the word it takes for
\* a line with no word (lib.rs 59)
Verbs ==
  [exit |-> <<"e", "x", "i", "t">>,
   quit |-> <<"q", "u", "i", "t">>,
   ls |-> <<"l", "s">>,
   dir |-> <<"d", "i", "r">>,
   lls |-> <<"l", "l", "s">>,
   ldir |-> <<"l", "d", "i", "r">>,
   pwd |-> <<"p", "w", "d">>,
   lpwd |-> <<"l", "p", "w", "d">>,
   cd |-> <<"c", "d">>,
   lcd |-> <<"l", "c", "d">>,
   get |-> <<"g", "e", "t">>,
   put |-> <<"p", "u", "t">>,
   invalid |-> <<"i", "n", "v", "a", "l", "i", "d">>]

\* a Command of lib.rs 24-40, with the number of words warn_if_more_words
\* (lib.rs 42-50) found left over
Parsed(cmd, source, destination, more_words) ==
  Ok([cmd |-> cmd, source |-> source, destination |-> destination,
      more_words |-> more_words])

\* the words after the first n
MoreWords(words, n) == IF Len(words) > n THEN Len(words) - n ELSE 0

\* lib.rs 79-89 and 90-100: cd and lcd take what follows "cd " or "lcd " in
\* the trimmed line as it was typed
ParseChangeDirectory(cmd, prefix, trimmed, words) ==
  IF Len(words) < 2 THEN Err("InvalidTarget")
  ELSE IF ~IsSome(StripPrefix(trimmed, prefix)) THEN Err("InvalidTarget")
  ELSE Parsed(cmd, Trim(Unwrap(StripPrefix(trimmed, prefix))), None, 0)

\* lib.rs 101-118: get and put take their words from the lowercased line
ParseTransfer(cmd, words) ==
  IF Len(words) < 2 THEN Err("InvalidTarget")
  ELSE Parsed(cmd, words[2],
              IF Len(words) >= 3 THEN Some(words[3]) ELSE None,
              MoreWords(words, 3))

\* lib.rs 59-120: the match on the first word
ParseWords(verb, trimmed, words) ==
  IF verb = Verbs.exit \/ verb = Verbs.quit THEN Err("UserExit")
  ELSE IF verb = Verbs.ls \/ verb = Verbs.dir
  THEN Parsed("ls", <<>>, None, MoreWords(words, 1))
  ELSE IF verb = Verbs.lls \/ verb = Verbs.ldir
  THEN Parsed("lls", <<>>, None, MoreWords(words, 1))
  ELSE IF verb = Verbs.pwd THEN Parsed("pwd", <<>>, None, MoreWords(words, 1))
  ELSE IF verb = Verbs.lpwd THEN Parsed("lpwd", <<>>, None, MoreWords(words, 1))
  ELSE IF verb = Verbs.cd
  THEN ParseChangeDirectory("cd", Verbs.cd \o <<SPACE>>, trimmed, words)
  ELSE IF verb = Verbs.lcd
  THEN ParseChangeDirectory("lcd", Verbs.lcd \o <<SPACE>>, trimmed, words)
  ELSE IF verb = Verbs.get THEN ParseTransfer("get", words)
  ELSE IF verb = Verbs.put THEN ParseTransfer("put", words)
  ELSE Err("InvalidCommand")

\* lib.rs 55-59: trim, to_lowercase, split_whitespace, the first word
ParseLowered(trimmed, words) ==
  ParseWords(IF words = <<>> THEN Verbs.invalid ELSE words[1], trimmed, words)

\* lib.rs 54-121: parse_command
ParseCommand(cmd_str) ==
  ParseLowered(Trim(cmd_str), SplitWhitespace(ToLowercase(Trim(cmd_str))))

(***************************************************************************)
(* The session: Runner and run_loop (lib.rs), and the functions of         *)
(* commands.rs called with the cursors of the Runner.                      *)
(***************************************************************************)
\* what the user may type after cd, lcd, get and put
CdArgs == {A_SLASH_MYBUCKET, A_DOTDOT}
LcdArgs == {A_BACKUP, L_HOME_U, A_NOSUCH}
GetSources == {A_DATA_OUT}
GetDests ==
  {None, Some(A_DOT_BACKUP_SLASH), Some(A_BK), Some(A_NOTES), Some(A_NEW),
   Some(A_NODIR_SLASH), Some(A_NODIR_X)}
PutSources == {A_DOT_NOTES, A_BACKUP, A_NOSUCH}
PutDests == {None, Some(A_DOCS_SLASH), Some(A_DOCS_NOTES), Some(A_REPORT)}

NoCommand ==
  [cmd |-> "none", impl |-> "none", source |-> <<>>, destination |-> None,
   result |-> NoRet, calls |-> <<>>]

Command(cmd, impl, source, destination, result, calls) ==
  [cmd |-> cmd, impl |-> impl, source |-> source, destination |-> destination,
   result |-> result, calls |-> calls]

\* lib.rs 357-361: Runner::new(current_dir(), "/"), on a disk and a store
\* that hold some files already
InitSession ==
  /\ local_cwd = L_HOME_U
  /\ remote_cwd = ROOT
  /\ fs_files = [p \in {L_NOTES, L_OLD_OUT} |-> ORIGINAL]
  /\ s3_objects = [bk \in {<<MYBUCKET, K_REPORT>>, <<MYBUCKET, K_DATA_OUT>>} |->
                     IF bk[2] = K_REPORT THEN "report" ELSE "out"]
  /\ transfers = 0
  /\ rl = "readline"
  /\ last = NoCommand

\* the argument pushed and the path left as it is
RunChangeRemoteDirectory_NoClean(dir) ==
  /\ rl = "readline"
  /\ remote_cwd' = Join(remote_cwd, dir)
  /\ last' = Command("cd", "lib", dir, None, Ok(remote_cwd'), <<>>)
  /\ rl' = "ran"
  /\ UNCHANGED << local_cwd, fs_files, s3_objects, transfers >>

\* lib.rs 185-193: cd
RunChangeRemoteDirectory(dir) ==
  /\ rl = "readline"
  /\ remote_cwd' = Clean(Join(remote_cwd, dir))
  /\ last' = Command("cd", "lib", dir, None, Ok(remote_cwd'), <<>>)
  /\ rl' = "ran"
  /\ UNCHANGED << local_cwd, fs_files, s3_objects, transfers >>

\* the joined path taken as it was written, cleaned but with its links
ChangeLocalDirectoryResult_NonCanonical(new_path, files) ==
  LET r == Resolve(new_path, files)
  IN IF r.ok
     THEN IF r.kind = "dir" THEN Ok(Clean(new_path)) ELSE Err("IO")
     ELSE IF r.err = "NotFound" THEN Ok(<<>>) ELSE Err("IO")

\* lib.rs 196-217: canonicalize, then set_current_dir; NotFound becomes a
\* message, every other failure an IO error
ChangeLocalDirectoryResult(new_path, files) ==
  LET r == Resolve(new_path, files)
  IN IF r.ok
     THEN IF r.kind = "dir" THEN Ok(r.path) ELSE Err("IO")
     ELSE IF r.err = "NotFound" THEN Ok(<<>>) ELSE Err("IO")

\* lib.rs 194-218: lcd
RunChangeLocalDirectory(dir) ==
  /\ rl = "readline"
  /\ LET new_path == Join(local_cwd, dir)
         result == ChangeLocalDirectoryResult(new_path, fs_files)
     IN /\ local_cwd' = IF result.kind = "Ok" /\ result.val # <<>>
                        THEN result.val ELSE local_cwd
        /\ last' = Command("lcd", "lib", dir, None, result, <<>>)
  /\ rl' = "ran"
  /\ UNCHANGED << remote_cwd, fs_files, s3_objects, transfers >>

\* the download_object and put_object calls among the calls of a command
Transfers(calls) ==
  Cardinality({i \in 1..Len(calls) :
                 calls[i].op \in {"download_object", "put_object"}})

\* what a get leaves: the disk, the count of transfers, the record
GetFileDone(impl, remote_source, local_destination, got) ==
  /\ transfers + Transfers(got.calls) <= MaxTransfers
  /\ fs_files' = got.files
  /\ transfers' = transfers + Transfers(got.calls)
  /\ last' = Command("get", impl, remote_source, local_destination,
                     got.result, got.calls)

\* a get on a target, however its remote calls end
GetFileOf(impl, remote_source, local_destination, target) ==
  \E outcome \in GetOutcomes(target) :
    GetFileDone(impl, remote_source, local_destination,
                GetFile(target, outcome, fs_files, s3_objects))

\* lib.rs 219-304 under run_loop: get
RunGetFile(remote_source, local_destination) ==
  /\ rl = "readline"
  /\ GetFileOf("lib", remote_source, local_destination,
               GetTargetLib(remote_cwd, local_cwd, remote_source,
                            local_destination, fs_files))
  /\ rl' = "ran"
  /\ UNCHANGED << local_cwd, remote_cwd, s3_objects >>

\* commands.rs 44-134: get_file on the cursors of the session
CallGetFile(remote_source, local_destination) ==
  /\ rl = "readline"
  /\ GetFileOf("commands", remote_source, local_destination,
               GetTargetCmd(remote_cwd, local_cwd, remote_source,
                            local_destination, fs_files))
  /\ rl' = "ran"
  /\ UNCHANGED << local_cwd, remote_cwd, s3_objects >>

\* what a put leaves: the store, the count of transfers, the record
PutFileDone(impl, local_source, remote_destination, put) ==
  /\ transfers + Transfers(put.calls) <= MaxTransfers
  /\ s3_objects' = put.objects
  /\ transfers' = transfers + Transfers(put.calls)
  /\ last' = Command("put", impl, local_source, remote_destination,
                     put.result, put.calls)

\* lib.rs 305-311 under run_loop: put
RunPutFile(local_source, remote_destination) ==
  /\ rl = "readline"
  /\ PutFileDone("lib", local_source, remote_destination,
                 PutFileLib(remote_cwd, local_cwd, local_source,
                            remote_destination, fs_files, s3_objects))
  /\ rl' = "ran"
  /\ UNCHANGED << local_cwd, remote_cwd, fs_files >>

\* commands.rs 136-185: put_file on the cursors of the session
CallPutFile(local_source, remote_destination, probe, outcome) ==
  /\ rl = "readline"
  /\ PutFileDone("commands", local_source, remote_destination,
                 PutFileCmd(remote_cwd, local_cwd, local_source,
                            remote_destination, probe, outcome, fs_files,
                            s3_objects))
  /\ rl' = "ran"
  /\ UNCHANGED << local_cwd, remote_cwd, fs_files >>

\* what an ls leaves: the record of the listing
ListDone(impl, listed) ==
  last' = Command("ls", impl, <<>>, None, listed.result, listed.calls)

\* the remote directory reset by every ls
RunListRemoteDirectory_AlwaysResets(answer) ==
  /\ rl = "readline"
  /\ ListDone("lib", ListRemoteDirectory(TryFromPath(remote_cwd), answer,
                                         s3_objects))
  /\ remote_cwd' = ROOT
  /\ rl' = "ran"
  /\ UNCHANGED << local_cwd, fs_files, s3_objects, transfers >>

\* lib.rs 148-173 under run_loop: ls. A remote_cwd that is no bucket path
\* is reset to "/".
RunListRemoteDirectory(answer) ==
  /\ rl = "readline"
  /\ ListDone("lib", ListRemoteDirectory(TryFromPath(remote_cwd), answer,
                                         s3_objects))
  /\ remote_cwd' = IF TryFromPath(remote_cwd).kind = "Err" THEN ROOT
                   ELSE remote_cwd
  /\ rl' = "ran"
  /\ UNCHANGED << local_cwd, fs_files, s3_objects, transfers >>

\* commands.rs 11-28: list_remote_path on the remote cursor of the session
CallListRemotePath(answer) ==
  /\ rl = "readline"
  /\ TryFromPath(remote_cwd).kind = "Ok"
  /\ ListDone("commands", ListRemotePath(TryFromPath(remote_cwd).val, answer,
                                         s3_objects))
  /\ rl' = "ran"
  /\ UNCHANGED << local_cwd, remote_cwd, fs_files, s3_objects, transfers >>

\* lib.rs 174-184 under run_loop: lls
RunListLocalDirectory(outcome) ==
  /\ rl = "readline"
  /\ last' = Command("lls", "lib", <<>>, None,
                     ListLocalDirectory(local_cwd, outcome, fs_files), <<>>)
  /\ rl' = "ran"
  /\ UNCHANGED << local_cwd, remote_cwd, fs_files, s3_objects, transfers >>

\* lib.rs 140-143 under run_loop: pwd
RunPrintRemoteDirectory ==
  /\ rl = "readline"
  /\ last' = Command("pwd", "lib", <<>>, None, Ok(remote_cwd), <<>>)
  /\ rl' = "ran"
  /\ UNCHANGED << local_cwd, remote_cwd, fs_files, s3_objects, transfers >>

\* lib.rs 144-147 under run_loop: lpwd
RunPrintLocalDirectory ==
  /\ rl = "readline"
  /\ last' = Command("lpwd", "lib", <<>>, None, Ok(local_cwd), <<>>)
  /\ rl' = "ran"
  /\ UNCHANGED << local_cwd, remote_cwd, fs_files, s3_objects, transfers >>

\* the errors parse_command returns (lib.rs 62, 84, 88, 94, 98, 101, 110,
\* 119)
ParseErrors == {"UserExit", "InvalidCommand", "InvalidTarget"}

\* lib.rs 326-340: the line does not parse; no command is run
ParseCommandErr(kind) ==
  /\ rl = "readline"
  /\ last' = Command("parse", "lib", <<>>, None, Err(kind), <<>>)
  /\ rl' = "ran"
  /\ UNCHANGED << local_cwd, remote_cwd, fs_files, s3_objects, transfers >>

\* only an InvalidTarget of parse_command lets the loop go on
ParseOutcome_OnlyTargetRecovers(kind) ==
  IF kind = "InvalidTarget" THEN "readline" ELSE "ended"

\* lib.rs 327-340: an InvalidCommand and an InvalidTarget of parse_command
\* print a message and the loop goes on; UserExit breaks out of it and
\* any other error is returned
ParseOutcome(kind) ==
  IF kind \in {"InvalidCommand", "InvalidTarget"} THEN "readline" ELSE "ended"

\* lib.rs 343-350: an Ok and an InvalidTarget are printed and the loop goes
\* on; `_ => return Err(e)` ends it on every other error
RunLoopOutcome(result) ==
  IF result.kind = "Err" /\ result.err # "InvalidTarget"
  THEN "ended" ELSE "readline"

\* lib.rs 326-351: what run_loop does with the result of the line. The
\* functions of commands.rs stand where the arms of run_command stand and
\* their result meets the same match.
RunLoopNext ==
  /\ rl = "ran"
  /\ rl' = IF last.cmd = "parse" THEN ParseOutcome(last.result.err)
           ELSE RunLoopOutcome(last.result)
  /\ last' = NoCommand
  /\ UNCHANGED << local_cwd, remote_cwd, fs_files, s3_objects, transfers >>

\* lib.rs 357-361: the program is started again on the same disk and store
Run ==
  /\ rl = "ended"
  /\ rl' = "readline"
  /\ local_cwd' = L_HOME_U
  /\ remote_cwd' = ROOT
  /\ last' = NoCommand
  /\ UNCHANGED << fs_files, s3_objects, transfers >>

\* no call of try_from_path of its own is under way
InitPathIdle == tp_path = ROOT /\ tp_ret = <<>>

\* no line has been read and run_loop has not returned
InitLineIdle == pc_line = <<>> /\ pc_ret = NoRet /\ loop_ret = NoRet

Init == InitSession /\ InitList /\ InitPathIdle /\ InitLineIdle

Next ==
  \/ /\ \E dir \in CdArgs : RunChangeRemoteDirectory(dir)
     /\ UNCHANGED << lf_vars, tp_vars, line_vars >>
  \/ /\ \E dir \in LcdArgs : RunChangeLocalDirectory(dir)
     /\ UNCHANGED << lf_vars, tp_vars, line_vars >>
  \/ /\ \E src \in GetSources, dst \in GetDests : RunGetFile(src, dst)
     /\ UNCHANGED << lf_vars, tp_vars, line_vars >>
  \/ /\ \E src \in GetSources, dst \in GetDests : CallGetFile(src, dst)
     /\ UNCHANGED << lf_vars, tp_vars, line_vars >>
  \/ /\ \E src \in PutSources, dst \in PutDests : RunPutFile(src, dst)
     /\ UNCHANGED << lf_vars, tp_vars, line_vars >>
  \/ /\ \E src \in PutSources, dst \in PutDests :
          \E probe \in {"ok", "s3_error"}, o \in {"ok", "s3_error"} :
            /\ (probe = "s3_error" => o = "ok")
            /\ CallPutFile(src, dst, probe, o)
     /\ UNCHANGED << lf_vars, tp_vars, line_vars >>
  \/ /\ \E answer \in BucketAnswers : RunListRemoteDirectory(answer)
     /\ UNCHANGED << lf_vars, tp_vars, line_vars >>
  \/ /\ \E answer \in BucketAnswers : CallListRemotePath(answer)
     /\ UNCHANGED << lf_vars, tp_vars, line_vars >>
  \/ /\ \E outcome \in {"ok", "io_error"} : RunListLocalDirectory(outcome)
     /\ UNCHANGED << lf_vars, tp_vars, line_vars >>
  \/ RunPrintRemoteDirectory /\ UNCHANGED << lf_vars, tp_vars, line_vars >>
  \/ RunPrintLocalDirectory /\ UNCHANGED << lf_vars, tp_vars, line_vars >>
  \/ /\ \E kind \in ParseErrors : ParseCommandErr(kind)
     /\ UNCHANGED << lf_vars, tp_vars, line_vars >>
  \/ RunLoopNext /\ UNCHANGED << lf_vars, tp_vars, line_vars >>
  \/ Run /\ UNCHANGED << lf_vars, tp_vars, line_vars >>

Spec == Init /\ [][Next]_vars

(***************************************************************************)
(* Properties of get and put.  A step of a command leaves readline with    *)
(* the disk and the store of before the command unprimed and the record    *)
(* of the command in last'.                                                *)
(***************************************************************************)
GetStep == rl = "readline" /\ rl' = "ran" /\ last'.cmd = "get"
PutStep == rl = "readline" /\ rl' = "ran" /\ last'.cmd = "put"

\* the paths download_object was called with
DownloadPaths(calls) ==
  {calls[i].path : i \in {j \in 1..Len(calls) : calls[j].op = "download_object"}}

\* the keys put_object was called with
PutKeys(calls) ==
  {<<calls[i].bucket, calls[i].key>> :
     i \in {j \in 1..Len(calls) : calls[j].op = "put_object"}}

\* C3: a get never calls download_object on a path that is a regular file,
\* and no step overwrites or truncates a local regular file: every file of
\* before the step is there after it with the same content.
C3_GetNeverOverwrites ==
  [][ /\ GetStep =>
           \A p \in DownloadPaths(last'.calls) : ~IsFile(p, fs_files)
      /\ \A p \in DOMAIN fs_files :
           p \in DOMAIN fs_files' /\ fs_files'[p] = fs_files[p] ]_vars

\* C4: a put of a regular file whose target (bucket, key) holds an object
\* fails with TargetAlreadyExists unless the probe itself failed, never
\* calls put_object, and leaves the store as it was.
C4_PutToOccupiedKeyFails ==
  [][ PutStep =>
        LET src == Canonicalize(Join(local_cwd, last'.source), fs_files)
        IN (src.kind = "Ok" /\ IsFile(src.val, fs_files)) =>
             LET s3_path == TryFromPath(PutDestPath(remote_cwd, src.val,
                                                    last'.destination))
             IN ( /\ s3_path.kind = "Ok"
                  /\ HasKeyAndBucket(s3_path.val)
                  /\ HasObject(s3_objects, Unwrap(s3_path.val.bucket),
                               Unwrap(s3_path.val.key))
                  /\ last'.result # Err("S3") )
                => /\ last'.result = Err("TargetAlreadyExists")
                   /\ PutKeys(last'.calls) = {}
                   /\ s3_objects' = s3_objects ]_vars

C7_PutIntoRemoteDirectory ==
  [][ ( /\ PutStep
        /\ last'.impl = "commands"
        /\ remote_cwd = A_SLASH_MYBUCKET
        /\ last'.source = A_DOT_NOTES
        /\ last'.destination = Some(A_DOCS_SLASH)
        /\ IsFile(Join(local_cwd, A_DOT_NOTES), fs_files)
        /\ ~HasObject(s3_objects, MYBUCKET, K_DOCS_NOTES)
        /\ last'.result.kind = "Ok" )
      => /\ PutKeys(last'.calls) = {<<MYBUCKET, K_DOCS_NOTES>>}
         /\ HasObject(s3_objects', MYBUCKET, K_DOCS_NOTES)
         /\ ~HasObject(s3_objects', MYBUCKET, K_DOCS) ]_vars

\* C8: a get with no destination targets local_cwd joined with the file
\* name of the source: with no regular file there download_object is called
\* with that path, and with the file a download of the same object left
\* there the get fails with TargetAlreadyExists and calls nothing.
C8_NoDestinationTarget ==
  [][ (GetStep /\ last'.destination = None) =>
        LET source_path == SourcePath(remote_cwd, last'.source)
            s3_path == TryFromPath(source_path).val
            target == Join(local_cwd, Unwrap(FileName(last'.source)))
        IN IF ~IsFile(target, fs_files)
           THEN DownloadPaths(last'.calls) = {target}
           ELSE (/\ HasObject(s3_objects, Unwrap(s3_path.bucket),
                              Unwrap(s3_path.key))
                 /\ fs_files[target] =
                      s3_objects[<<Unwrap(s3_path.bucket), Unwrap(s3_path.key)>>])
                => /\ last'.result = Err("TargetAlreadyExists")
                   /\ last'.calls = <<>> ]_vars

\* C9: a get whose destination, joined to local_cwd, is a directory calls
\* download_object with the canonical path of that directory (a directory
\* of the disk, whatever link or dot the destination was written with)
\* joined with the file name of the source key.
C9_DirectoryDestination ==
  [][ ( /\ GetStep
        /\ IsSome(last'.destination)
        /\ IsDir(Join(local_cwd, Unwrap(last'.destination)), fs_files) )
      => LET dir == Resolve(Join(local_cwd, Unwrap(last'.destination)),
                            fs_files).path
         IN /\ dir \in LocalDirs
            /\ last'.calls # <<>>
            /\ DownloadPaths(last'.calls) =
                 {Join(dir, Unwrap(FileName(last'.calls[1].key)))} ]_vars

\* a get of data/out.bin to bk, a link to /home/u/backup, in /home/u: the
\* download went to /home/u/backup/out.bin
C9_Witness ==
  /\ rl = "ran"
  /\ last.cmd = "get"
  /\ local_cwd = L_HOME_U
  /\ last.destination = Some(A_BK)
  /\ last.calls # <<>>
  /\ last.calls[1].op = "download_object"
  /\ last.calls[1].path = L_OLD_OUT

\* C10: a get whose destination, joined to local_cwd, is a regular file
\* fails with TargetAlreadyExists and calls nothing.
C10_FileDestination ==
  [][ ( /\ GetStep
        /\ IsSome(last'.destination)
        /\ IsFile(Join(local_cwd, Unwrap(last'.destination)), fs_files) )
      => /\ last'.result = Err("TargetAlreadyExists")
         /\ last'.calls = <<>> ]_vars


\* the destination of a get names nothing on the disk
NoSuchDestination(destination) ==
  /\ IsSome(destination)
  /\ ~Resolve(Join(local_cwd, Unwrap(destination)), fs_files).ok

\* C11: a get whose destination is not on the disk and ends with a path
\* separator fails with InvalidTarget, calls nothing and writes nothing; and
\* no step makes a directory: every regular file of the disk, before and
\* after, lies in one of the directories the disk had from the start.
C11_SeparatorDestination ==
  [][ /\ ( /\ GetStep
           /\ NoSuchDestination(last'.destination)
           /\ EndsWith(Unwrap(last'.destination), SLASH) )
         => /\ last'.result = Err("InvalidTarget")
            /\ last'.calls = <<>>
            /\ fs_files' = fs_files
      /\ \A p \in DOMAIN fs_files' :
           /\ p \notin LocalDirs
           /\ Pop(p) \in LocalDirs ]_vars

\* a get of data/out.bin to nodir/, which is not there: InvalidTarget
C11_Witness ==
  /\ rl = "ran"
  /\ last.cmd = "get"
  /\ last.destination = Some(A_NODIR_SLASH)
  /\ last.result = Err("InvalidTarget")
  /\ last.calls = <<>>

\* C12: a get whose destination is not on the disk and ends with no
\* separator: when the parent of local_cwd joined with the destination is a
\* directory, download_object is called with the canonical parent joined
\* with the last component of the destination as the user wrote it;
\* otherwise the get fails with InvalidTarget, calls nothing and writes
\* nothing.
C12_NewFileDestination ==
  [][ ( /\ GetStep
        /\ NoSuchDestination(last'.destination)
        /\ ~EndsWith(Unwrap(last'.destination), SLASH)
        /\ ~EndsWith(Unwrap(last'.destination), BACKSLASH) )
      => IF IsDir(Pop(Join(local_cwd, Unwrap(last'.destination))), fs_files)
         THEN DownloadPaths(last'.calls) =
                {Join(Resolve(Pop(Join(local_cwd, Unwrap(last'.destination))),
                              fs_files).path,
                      Segments(Unwrap(last'.destination))
                        [Len(Segments(Unwrap(last'.destination)))])}
         ELSE /\ last'.result = Err("InvalidTarget")
              /\ last'.calls = <<>>
              /\ fs_files' = fs_files ]_vars

\* get_file of data/out.bin to new.bin in /home/u/backup went to
\* /home/u/backup/new.bin
C12_Witness ==
  /\ rl = "ran"
  /\ last.cmd = "get"
  /\ last.impl = "commands"
  /\ local_cwd = L_BACKUP
  /\ last.destination = Some(A_NEW)
  /\ DownloadPaths(last.calls) = {Join(L_BACKUP, A_NEW)}

\* the (bucket, key) pairs object_exists was called with
ProbedKeys(calls) ==
  {<<calls[i].bucket, calls[i].key>> :
     i \in {j \in 1..Len(calls) : calls[j].op = "object_exists"}}

\* C13: a put by put_file whose source, joined to local_cwd, is no regular
\* file (it is not there, or it is a directory) fails with InvalidTarget and
\* makes no remote call.
C13_PutSourceNotAFile ==
  [][ ( /\ PutStep
        /\ last'.impl = "commands"
        /\ ~IsFile(Join(local_cwd, last'.source), fs_files) )
      => /\ last'.result = Err("InvalidTarget")
         /\ last'.calls = <<>> ]_vars

\* C14: when the probe of a put answers, the put is refused with
\* TargetAlreadyExists exactly when an object with the probed key itself is
\* in the bucket; an object whose key only starts with it refuses nothing.
C14_ProbeIsExact ==
  [][ (PutStep /\ last'.result # Err("S3")) =>
        \A bk \in ProbedKeys(last'.calls) :
          (last'.result = Err("TargetAlreadyExists"))
            <=> HasObject(s3_objects, bk[1], bk[2]) ]_vars

C25_PageFailure ==
  (lf_pc = "done" /\ Len(lf_requests) # Len(lf_responses))
    => /\ lf_ret = Err("S3")
       /\ Len(lf_requests) = Len(lf_responses) + 1
       /\ \A i \in 1..Len(lf_responses) :
            /\ IsSome(lf_responses[i].next_continuation_token)
            /\ lf_requests[i + 1].continuation_token
                 = lf_responses[i].next_continuation_token

\* the second page request failed after a first page that gave entries
C25_Witness ==
  /\ lf_pc = "done"
  /\ lf_ret = Err("S3")
  /\ Len(lf_requests) = 2
  /\ Len(lf_responses) = 1
  /\ lf_results \o lf_files # <<>>

\* C17: a command that fails with InvalidTarget or TargetAlreadyExists, at
\* parse time or while running, leaves both cursors as they were and does
\* not end the session: the loop reads the next line.
C17_TargetErrorsRecoverable ==
  [][ /\ ( /\ rl = "readline"
           /\ rl' = "ran"
           /\ last'.result \in {Err("InvalidTarget"), Err("TargetAlreadyExists")} )
         => (local_cwd' = local_cwd /\ remote_cwd' = remote_cwd)
      /\ ( /\ rl = "ran"
           /\ last.result \in {Err("InvalidTarget"), Err("TargetAlreadyExists")} )
         => /\ rl' = "readline"
            /\ local_cwd' = local_cwd
            /\ remote_cwd' = remote_cwd ]_vars

(***************************************************************************)
(* The session walking the store and the disk: cd to buckets and keys,     *)
(* lcd, ls, lines that do not parse.  No file is moved.                    *)
(***************************************************************************)
\* what the user may type after cd here
\* "data"
A_DATA == <<"d", "a", "t", "a">>
\* "../.."
A_UP_UP == <<".", ".", "/", ".", ".">>
\* "./sub//x/../"
A_MESSY == <<".", "/", "s", "u", "b", "/", "/", "x", "/", ".", ".", "/">>
\* "/../mybucket/./data/"
A_ABS_MESSY == <<"/", ".", ".", "/", "m", "y", "b", "u", "c", "k", "e", "t", "/", ".", "/", "d", "a", "t", "a", "/">>

NavCdArgs ==
  {ROOT, A_SLASH_MYBUCKET, A_SLASH_MYBUCKET_DATA, A_SLASH_ARCHIVE_OLD,
   A_SLASH_NOSUCH, A_DOTDOT, CURDIR, A_DATA, A_UP_UP, A_MESSY, A_ABS_MESSY}

\* the remote directory a cd would leave is no deeper than the paths of
\* the model go
WithinDepth(dir) ==
  Len(Segments(Clean(Join(remote_cwd, dir)))) <= MaxSegments

\* what the user may type after lcd here: a directory, a link to one, a
\* regular file, the parent, a name that is not there
NavLcdArgs == LcdArgs \cup {A_BK, A_NOTES, A_DOTDOT}

NextNav ==
  \/ /\ \E dir \in NavCdArgs :
          WithinDepth(dir) /\ RunChangeRemoteDirectory(dir)
     /\ UNCHANGED << lf_vars, tp_vars, line_vars >>
  \/ /\ \E dir \in NavLcdArgs : RunChangeLocalDirectory(dir)
     /\ UNCHANGED << lf_vars, tp_vars, line_vars >>
  \/ /\ \E answer \in BucketAnswers : RunListRemoteDirectory(answer)
     /\ UNCHANGED << lf_vars, tp_vars, line_vars >>
  \/ /\ \E answer \in BucketAnswers : CallListRemotePath(answer)
     /\ UNCHANGED << lf_vars, tp_vars, line_vars >>
  \/ /\ \E outcome \in {"ok", "io_error"} : RunListLocalDirectory(outcome)
     /\ UNCHANGED << lf_vars, tp_vars, line_vars >>
  \/ RunPrintRemoteDirectory /\ UNCHANGED << lf_vars, tp_vars, line_vars >>
  \/ RunPrintLocalDirectory /\ UNCHANGED << lf_vars, tp_vars, line_vars >>
  \/ /\ \E kind \in ParseErrors : ParseCommandErr(kind)
     /\ UNCHANGED << lf_vars, tp_vars, line_vars >>
  \/ RunLoopNext /\ UNCHANGED << lf_vars, tp_vars, line_vars >>
  \/ Run /\ UNCHANGED << lf_vars, tp_vars, line_vars >>

SpecNav == Init /\ [][NextNav]_vars

\* the path has a bucket and a key
IsObjectPath(path) ==
  TryFromPath(path).kind = "Ok" /\ HasKeyAndBucket(TryFromPath(path).val)

\* C24: a get whose source, joined to remote_cwd and cleaned, and a put
\* whose destination (or, with none, the file name of its source), joined
\* to remote_cwd and cleaned, has not both a bucket and a key fails with
\* InvalidTarget, calls nothing remote and writes nothing.
C24_NeedsBucketAndKey ==
  [][ /\ (GetStep /\ ~IsObjectPath(SourcePath(remote_cwd, last'.source)))
           => /\ last'.result = Err("InvalidTarget")
              /\ last'.calls = <<>>
              /\ fs_files' = fs_files
      /\ (PutStep /\ ~IsObjectPath(PutDestPath(remote_cwd, last'.source,
                                               last'.destination)))
           => /\ last'.result = Err("InvalidTarget")
              /\ last'.calls = <<>>
              /\ s3_objects' = s3_objects ]_vars

\* the local path of the get_object call among the calls of a command
CreatedPaths(calls) ==
  {calls[i].path : i \in {j \in 1..Len(calls) : calls[j].op = "get_object"}}

\* C27: a get whose download fails at the store leaves the local file it
\* created, empty, at the target; a get without destination that finds
\* the file such a failure left at local_cwd joined with the file name of
\* its source fails with TargetAlreadyExists and calls nothing.
C27_FailedGetLeavesFile ==
  [][ /\ (GetStep /\ last'.result = Err("S3"))
           => \A path \in CreatedPaths(last'.calls) :
                path \in DOMAIN fs_files' /\ fs_files'[path] = EMPTY
      /\ ( /\ GetStep
           /\ last'.destination = None
           /\ IsObjectPath(SourcePath(remote_cwd, last'.source))
           /\ Join(local_cwd, Unwrap(FileName(last'.source))) \in DOMAIN fs_files
           /\ fs_files[Join(local_cwd, Unwrap(FileName(last'.source)))] = EMPTY )
           => /\ last'.result = Err("TargetAlreadyExists")
              /\ last'.calls = <<>> ]_vars

(***************************************************************************)
(* The session reading lines: run_loop with parse_command before           *)
(* run_command.                                                            *)
(***************************************************************************)
\* the first words and the rests of the lines the user may type
LineVerbs ==
  {<<"l", "s">>,
   <<"L", "S">>,
   <<"d", "i", "r">>,
   <<"l", "l", "s">>,
   <<"l", "d", "i", "r">>,
   <<"p", "w", "d">>,
   <<"l", "p", "w", "d">>,
   <<"c", "d">>,
   <<"C", "D">>,
   <<"l", "c", "d">>,
   <<"g", "e", "t">>,
   <<"G", "e", "t">>,
   <<"p", "u", "t">>,
   <<"e", "x", "i", "t">>,
   <<"E", "x", "i", "t">>,
   <<"q", "u", "i", "t">>,
   <<"h", "e", "l", "p">>,
   <<>>}

LineRests ==
  {<<>>,
   <<" ", "/", "m", "y", "b", "u", "c", "k", "e", "t">>,
   <<" ", "B", "a", "c", "k", "u", "p">>,
   <<" ", "d", "a", "t", "a", "/", "O", "u", "t", ".", "b", "i", "n", " ", "N", "e", "w", ".", "b", "i", "n">>,
   <<" ", "n", "o", "t", "e", "s", ".", "t", "x", "t", " ", "d", "o", "c", "s", "/", "N", ".", "t", "x", "t", " ", "x", " ">>,
   <<"\t", "x">>}

Lines == {verb \o rest : verb \in LineVerbs, rest \in LineRests}

\* lib.rs 138-313: run_command, the arm of the parsed command
RunCommand(cmd) ==
  \/ cmd.cmd = "ls" /\ \E answer \in BucketAnswers : RunListRemoteDirectory(answer)
  \/ cmd.cmd = "lls" /\ \E outcome \in {"ok", "io_error"} : RunListLocalDirectory(outcome)
  \/ cmd.cmd = "pwd" /\ RunPrintRemoteDirectory
  \/ cmd.cmd = "lpwd" /\ RunPrintLocalDirectory
  \/ cmd.cmd = "cd" /\ WithinDepth(cmd.source) /\ RunChangeRemoteDirectory(cmd.source)
  \/ cmd.cmd = "lcd" /\ RunChangeLocalDirectory(cmd.source)
  \/ cmd.cmd = "get" /\ RunGetFile(cmd.source, cmd.destination)
  \/ cmd.cmd = "put" /\ RunPutFile(cmd.source, cmd.destination)

\* lib.rs 326-342: the line is parsed; an error is handled by the loop, a
\* command is run
ReadParsed(line, parsed) ==
  /\ pc_line' = line
  /\ pc_ret' = parsed
  /\ IF parsed.kind = "Err" THEN ParseCommandErr(parsed.err)
     ELSE RunCommand(parsed.val)
  /\ UNCHANGED << loop_ret, lf_vars, tp_vars >>

\* lib.rs 321-326: readline gave a line
ReadLine(line) == ReadParsed(line, ParseCommand(line))

\* lib.rs 319-355: what run_loop returns when it ends: Ok(()) after the
\* break of UserExit, the error it met otherwise
RunLoopReturn(l) ==
  IF l.cmd = "parse" /\ l.result.err = "UserExit" THEN Ok(<<>>) ELSE l.result

\* lib.rs 326-354: the loop goes on or run_loop returns; the line and the
\* command made of it are dropped with the turn of the loop
RunLoopStep ==
  /\ RunLoopNext
  /\ loop_ret' = IF rl' = "ended" THEN RunLoopReturn(last) ELSE loop_ret
  /\ pc_line' = <<>>
  /\ pc_ret' = NoRet
  /\ UNCHANGED << lf_vars, tp_vars >>

\* lib.rs 357-361: the program is started again
RunAgain ==
  /\ Run
  /\ loop_ret' = NoRet
  /\ UNCHANGED << pc_line, pc_ret, lf_vars, tp_vars >>

NextLine ==
  \/ \E line \in Lines : ReadLine(line)
  \/ RunLoopStep
  \/ RunAgain

SpecLine == Init /\ [][NextLine]_vars

(***************************************************************************)
(* Properties of the lines read.                                           *)
(***************************************************************************)
ReadStep == rl = "readline" /\ rl' = "ran"

\* the words of a line as typed, and its first word in lower case
TypedWords(line) == SplitWhitespace(line)
TypedVerb(line) ==
  IF TypedWords(line) = <<>> THEN <<>> ELSE ToLowercase(TypedWords(line)[1])

\* the commands with a fixed number of words, by their verbs
FixedArity ==
  [v \in {Verbs.ls, Verbs.dir, Verbs.lls, Verbs.ldir, Verbs.pwd, Verbs.lpwd} |->
     IF v \in {Verbs.ls, Verbs.dir} THEN "ls"
     ELSE IF v \in {Verbs.lls, Verbs.ldir} THEN "lls"
     ELSE IF v = Verbs.pwd THEN "pwd" ELSE "lpwd"]

KnownVerbs ==
  DOMAIN FixedArity
  \cup {Verbs.exit, Verbs.quit, Verbs.cd, Verbs.lcd, Verbs.get, Verbs.put}

\* C23: a line with no word or with a first word that is no verb gives the
\* unknown-command message, and the loop goes on with both cursors as they
\* were; words after ls, lls, pwd, lpwd, after the two arguments of get and
\* put and after exit are counted for a warning and the command runs all
\* the same; exit and quit end the loop with Ok, and no command runs after
\* the loop has ended.
C23_LinesOfTheLoop ==
  [][ /\ (ReadStep /\ TypedVerb(pc_line') \notin KnownVerbs)
           => /\ pc_ret' = Err("InvalidCommand")
              /\ last'.cmd = "parse"
              /\ remote_cwd' = remote_cwd /\ local_cwd' = local_cwd
      /\ (rl = "ran" /\ pc_ret = Err("InvalidCommand"))
           => /\ rl' = "readline"
              /\ loop_ret' = NoRet
              /\ remote_cwd' = remote_cwd /\ local_cwd' = local_cwd
      /\ (ReadStep /\ TypedVerb(pc_line') \in DOMAIN FixedArity)
           => /\ pc_ret'.kind = "Ok"
              /\ pc_ret'.val.cmd = FixedArity[TypedVerb(pc_line')]
              /\ pc_ret'.val.more_words = Len(TypedWords(pc_line')) - 1
              /\ last'.cmd = FixedArity[TypedVerb(pc_line')]
      /\ ( /\ ReadStep
           /\ TypedVerb(pc_line') \in {Verbs.get, Verbs.put}
           /\ Len(TypedWords(pc_line')) > 3 )
           => /\ pc_ret'.kind = "Ok"
              /\ pc_ret'.val.more_words = Len(TypedWords(pc_line')) - 3
              /\ last'.cmd = (IF TypedVerb(pc_line') = Verbs.get
                              THEN "get" ELSE "put")
      /\ (ReadStep /\ TypedVerb(pc_line') \in {Verbs.exit, Verbs.quit})
           => pc_ret' = Err("UserExit") /\ last'.cmd = "parse"
      /\ (rl = "ran" /\ pc_ret = Err("UserExit"))
           => rl' = "ended" /\ loop_ret' = Ok(<<>>)
      /\ rl = "ended" => (rl' # "ran" /\ last' = NoCommand) ]_vars

\* "Exit /mybucket" has been read: the word after exit did not keep the
\* line from being taken for exit
C23_Witness ==
  /\ rl = "ran"
  /\ pc_line = <<"E", "x", "i", "t", " ", "/", "m", "y", "b", "u", "c", "k", "e", "t">>
  /\ pc_ret = Err("UserExit")

\* the line with the letters of its first word in lower case
RECURSIVE LowerVerbFrom(_, _)
LowerVerbFrom(s, in_word) ==
  IF s = <<>> THEN <<>>
  ELSE IF IsWhitespace(s[1])
  THEN IF in_word THEN s ELSE <<s[1]>> \o LowerVerbFrom(Tail(s), FALSE)
  ELSE <<ToLowerChar(s[1])>> \o LowerVerbFrom(Tail(s), TRUE)

WithLowerVerb(line) == LowerVerbFrom(line, FALSE)

\* C28: the source and the destination of a parsed get or put are the
\* second and third word of the line as typed, letter case kept; and a
\* line whose verb is typed in upper or mixed case is parsed as the line
\* with the verb in lower case is.
C28_ArgumentsAsTyped ==
  [][ /\ ( /\ ReadStep
           /\ TypedVerb(pc_line') \in {Verbs.get, Verbs.put}
           /\ Len(TypedWords(pc_line')) >= 2 )
           => /\ pc_ret'.kind = "Ok"
              /\ pc_ret'.val.source = TypedWords(pc_line')[2]
              /\ pc_ret'.val.destination =
                   (IF Len(TypedWords(pc_line')) >= 3
                    THEN Some(TypedWords(pc_line')[3]) ELSE None)
      /\ ReadStep => pc_ret' = ParseCommand(WithLowerVerb(pc_line')) ]_vars

(***************************************************************************)
(* Properties of lcd.                                                      *)
(***************************************************************************)
LcdStep == rl = "readline" /\ rl' = "ran" /\ last'.cmd = "lcd"

\* what canonicalize and set_current_dir make of local_cwd joined with arg
LcdTarget(arg) == Resolve(Join(local_cwd, arg), fs_files)

CommandStep == rl = "readline" /\ rl' = "ran"

\* C22: remote_cwd changes only by cd, which sets it to the cleaned join of
\* remote_cwd and its argument, succeeds and calls nothing remote; local_cwd
\* changes only by an lcd that succeeds; ls, lls, pwd, lpwd, get and put
\* leave both cursors as they were whether they succeed or fail, cd leaves
\* local_cwd and lcd leaves remote_cwd.
C22_CursorFrame ==
  [][ /\ CommandStep =>
           /\ IF last'.cmd = "cd"
              THEN /\ remote_cwd' = Clean(Join(remote_cwd, last'.source))
                   /\ last'.result.kind = "Ok"
                   /\ last'.calls = <<>>
              ELSE remote_cwd' = remote_cwd
           /\ IF last'.cmd = "lcd" /\ last'.result.kind = "Ok"
              THEN TRUE
              ELSE local_cwd' = local_cwd
      /\ rl = "ran" => (remote_cwd' = remote_cwd /\ local_cwd' = local_cwd)
    ]_vars

\* with both cursors moved from where they started, a get has failed and
\* they stand where they stood
C22_Witness ==
  /\ rl = "ran"
  /\ last.cmd = "get"
  /\ last.result.kind = "Err"
  /\ remote_cwd = A_SLASH_MYBUCKET
  /\ local_cwd = L_BACKUP

(***************************************************************************)
(* Properties of ls.                                                       *)
(***************************************************************************)
LsStep == rl = "readline" /\ rl' = "ran" /\ last'.cmd = "ls"

\* the one request an ls of this remote directory is to make
ListingQuery(s3_path) ==
  IF HasKeyAndBucket(s3_path)
  THEN [op |-> "list_files", bucket |-> Unwrap(s3_path.bucket),
        prefix |-> Some(Unwrap(s3_path.key) \o <<SLASH>>)]
  ELSE IF HasBucket(s3_path)
  THEN [op |-> "list_files", bucket |-> Unwrap(s3_path.bucket),
        prefix |-> None]
  ELSE [op |-> "list_buckets"]

\* C19: an ls with a bucket and a key in the remote directory asks the
\* service for the bucket with the prefix key + "/"; with a bucket and no
\* key it asks with no prefix; with no bucket it lists the buckets.
C19_ListingPrefix ==
  [][LsStep /\ TryFromPath(remote_cwd).kind = "Ok"
     => last'.calls = <<ListingQuery(TryFromPath(remote_cwd).val)>>]_vars

\* C20: an ls with no bucket in the remote directory returns the names of
\* all buckets in lexicographic order, whatever the order the service told
\* them in.
C20_BucketsSorted ==
  [][LsStep /\ TryFromPath(remote_cwd).kind = "Ok"
       /\ ~HasBucket(TryFromPath(remote_cwd).val)
       /\ last'.result.kind = "Ok"
     => last'.result.val
          = JoinWith(SortUnstable(SetToSeq(Buckets)), <<NEWLINE>>)]_vars

(***************************************************************************)
(* S3Path::try_from_path on its own, on paths of every shape.              *)
(***************************************************************************)
\* what may stand between two separators
PathPieces == {<<>>, CURDIR, DOTDOT, <<"a">>, <<"b">>}

\* the paths try_from_path is given: absolute and relative
PathInputs ==
  {(IF rooted THEN ROOT ELSE <<>>) \o JoinWith(segs, <<SLASH>>) :
     rooted \in BOOLEAN, segs \in SeqsUpTo(PathPieces, MaxSegments)}

InitPath ==
  /\ InitSession
  /\ InitList
  /\ InitLineIdle
  /\ tp_path \in PathInputs
  /\ tp_ret = <<>>

\* s3.rs 25-63: one more call of try_from_path on the same path
TryFromPathCall ==
  /\ Len(tp_ret) < MaxCalls
  /\ tp_ret' = Append(tp_ret, TryFromPath(tp_path))
  /\ UNCHANGED tp_path

NextPath ==
  TryFromPathCall /\ UNCHANGED << lf_vars, session_vars, line_vars >>

SpecPath == InitPath /\ [][NextPath]_vars

\* a component that is "." or ".." among the components of a path
HasDotComponent(path) ==
  \E i \in 1..Len(Components(path)) : ~IsNormal(Components(path)[i])

\* C15: try_from_path fails with InvalidTarget on every path with a ".."
\* or "." component at any place, and no key it returns has such a
\* component.
C15_DotComponentsRejected ==
  \A i \in 1..Len(tp_ret) :
    /\ HasDotComponent(tp_path) => tp_ret[i] = Err("InvalidTarget")
    /\ (tp_ret[i].kind = "Ok" /\ IsSome(tp_ret[i].val.key))
         => ~HasDotComponent(Unwrap(tp_ret[i].val.key))

\* a path that path_clean leaves as it is, with no "." or ".." in it
IsCleaned(path) == Clean(path) = path /\ ~HasDotComponent(path)

\* the S3Path of a cleaned path: bucket the first component, key the rest
CleanedS3Path(comps) ==
  IF comps = <<>> THEN [bucket |-> None, key |-> None]
  ELSE [bucket |-> Some(comps[1]),
        key |-> IF Len(comps) = 1 THEN None
                ELSE Some(JoinWith(Tail(comps), <<SLASH>>))]

\* C16: on a cleaned path with no "." or ".." try_from_path succeeds, with
\* the first component as bucket, the rest joined by '/' as key, no key
\* when nothing is left and neither for the root; a second call returns
\* the same; and every S3Path returned with a key has a bucket.
C16_CleanedPathParses ==
  /\ \A i \in 1..Len(tp_ret) :
       /\ IsCleaned(tp_path)
            => tp_ret[i] = Ok(CleanedS3Path(Components(tp_path)))
       /\ tp_ret[i].kind = "Ok"
            => (HasKeyAndBucket(tp_ret[i].val) <=> IsSome(tp_ret[i].val.key))
  /\ Len(tp_ret) = 2 => tp_ret[1] = tp_ret[2]

\* "/a/b" parsed twice: bucket "a", key "b" both times
C16_Witness ==
  /\ tp_path = <<"/", "a", "/", "b">>
  /\ tp_ret = << Ok([bucket |-> Some(<<"a">>), key |-> Some(<<"b">>)]),
                 Ok([bucket |-> Some(<<"a">>), key |-> Some(<<"b">>)]) >>

\* C26: from "/", whatever is typed after cd (relative, absolute, with
\* ".", ".." or repeated separators), remote_cwd is an absolute path that
\* path_clean leaves as it is, with no "." or ".." in it; try_from_path
\* does not fail on it and no ls resets it.
C26_RemoteCwdClean ==
  /\ [](/\ HasRoot(remote_cwd)
        /\ IsCleaned(remote_cwd)
        /\ TryFromPath(remote_cwd).kind = "Ok")
  /\ [][LsStep => remote_cwd' = remote_cwd]_vars

\* cd /../mybucket/./data/ has left /mybucket/data
C26_Witness ==
  /\ rl = "ran"
  /\ last.cmd = "cd"
  /\ last.source = A_ABS_MESSY
  /\ remote_cwd = A_SLASH_MYBUCKET_DATA

SpecList ==
  Init /\ [][NextList /\ UNCHANGED << session_vars, tp_vars, line_vars >>]_vars

=============================================================================
